---- MODULE Spec2Model ----
(***************************************************************************)
(* Connection manager and SFTP channel broker of myforge_terminal          *)
(* (ssh/client.py, ssh/sftp.py, utils/logger.py) as a state machine.       *)
(*                                                                         *)
(* Threads: one connect_thread per connect() call, one _read_output and    *)
(* one _monitor_system loop per successful connect, the callers of         *)
(* disconnect(), the single disconnect_thread_worker the lock admits, and  *)
(* one worker per SFTP operation.  Callbacks installed by the UI           *)
(* (on_status_change, on_connection_state_change, on_output, on_complete)  *)
(* are foreign code: every invocation either returns or raises.            *)
(***************************************************************************)
EXTENDS Integers, Sequences, FiniteSets, TLC

\* ---------------------------------------------------------------- bounds
MaxConnects == 2
MaxDisconnects == 2
MaxOps == 1
\* Budget of calls the user interface makes in one run: a Connect, which starts
\* three threads, weighs ConnectCost, a Disconnect or a transfer operation 1.
MaxCalls == 4
ConnectCost == 2
\* Steps of one run in which an installed callback raises.
MaxFaults == 1
\* Calls of close_sftp() in one run, each weighing 1 in the budget.
MaxCloses == 1
\* Output lines the reader processes and commands sent in one run of the
\* command path.
MaxLines == 3
MaxCommands == 2
\* Largest st_mode handed to _format_permissions (16 bits).
MaxMode == 65535
\* Entries of the directory list_directory lists.
MaxEntries == 3

Null == 0
Attempts == 1..MaxConnects
DiscCalls == 1..MaxDisconnects
OpIds == 1..MaxOps

\* Credentials handed to connect(): which of password / key_path are set.
Credentials == {"none", "password", "key_path"}
\* A connect_thread that takes any input for credentials (lines 86-92 without
\* their else branch).
HasCredentialsUnchecked(credentials) == TRUE
\* Lines 86-92: a key path or a password yields connect parameters.
HasCredentials(credentials) == credentials # "none"

\* Completion messages (the text of the second callback argument).
NoCredentials == "No password or SSH key provided"
AuthenticationFailed == "Authentication failed"
ConnectionFailed == "Connection error"
DisconnectInProgress == "Disconnect operation already in progress."
NotConnected == "Not connected or already disconnected."
CloseError == "Error closing some resources."
InternalError == "str(e)"
ChannelUnavailable == "Could not establish SFTP connection"
OperationError == "Error during operation"
NoMessage == "None"

VARIABLES
    connected,        \* SSHClient.connected
    client,           \* SSHClient.client: id of a paramiko client object, or Null
    shell,            \* SSHClient.shell: id of a shell channel, or Null
    sftp,             \* SSHClient.sftp: id of an SFTP channel, or Null
    disconnect_lock,  \* SSHClient.disconnect_lock is held
    transport,        \* client id -> "new" | "open" | "closed"
    shellState,       \* shell id -> "none" | "open" | "exited" | "closed"
    sftpState,        \* sftp channel id -> "none" | "open" | "closed"
    conn,             \* connect() calls and their connect_thread
    reader,           \* _read_output loop started by attempt i
    monitor,          \* _monitor_system loop started by attempt i
    disc,             \* disconnect() calls made with a completion callback
    worker,           \* the disconnect_thread_worker (at most one: the lock)
    ops,              \* SFTP operation workers
    faults,           \* steps so far in which an installed callback raised
    closes,           \* calls of close_sftp() made so far
    known_processes,  \* SSHClient.known_processes: <<name, pid>> in insertion order
    shell_sent,       \* the texts shell.send() has delivered, in order
    commands,         \* send_command() calls so far: the text and the value returned
    lines,            \* output lines _process_output_line has been given so far
    mode,             \* the st_mode _format_permissions is given
    perm_str,         \* the string it returns (empty before the call)
    remote_path,      \* list_directory: the path listed, a sequence of components
    dir_items,        \* what sftp.listdir_attr(remote_path) returns
    items,            \* the items list_thread hands to on_complete
    list_result,      \* "none" before the call, then "ok" or "error"
    download,         \* the download_thread: its position and its locals
    selection,        \* download_files: the items handed over
    obstacles,        \* directories that cannot be listed or created
    local,            \* the local directories and files that exist
    remote,           \* the remote file system: path -> entry
    requests,         \* the SFTP requests that change it, in the order issued
    job,              \* the thread of an upload, create, delete or rename
    stream,           \* _read_output: the chunks received and the line buffer
    poller,           \* _monitor_system: its position in the cycle
    current_remote_path, \* SFTPOperations.current_remote_path
    listings          \* the list_thread of each list_directory call, in call order

\* The state of the command path (send_command, _process_output_line).
commandVars == <<known_processes, shell_sent, commands, lines>>

\* The state of a _format_permissions call.
permissionVars == <<mode, perm_str>>

\* The state of a list_directory call.
listVars == <<remote_path, dir_items, items, list_result>>

\* The state of a download_files call.
downloadVars == <<download, selection, obstacles, local>>

\* The state of an upload_files, create_directory, delete_item or rename_item call.
fileVars == <<remote, requests, job>>

\* The state of the line buffering of _read_output.
streamVars == <<stream>>

\* The state of _monitor_system.
pollVars == <<poller>>

\* The path list_directory remembers, and the listings under way.
pathVars == <<current_remote_path, listings>>

\* What no step of the connection threads and transfer workers writes.
elsewhere ==
    <<closes, commandVars, permissionVars, listVars, downloadVars, fileVars, streamVars,
      pollVars, pathVars>>

\* The state those threads and workers do write.
connectionVars ==
    <<connected, client, shell, sftp, disconnect_lock, transport, shellState,
      sftpState, conn, reader, monitor, disc, worker, ops, faults>>

vars == <<connectionVars, elsewhere>>

session == <<connected, client, shell, sftp>>
handles == <<transport, shellState, sftpState>>

\* disconnect() is also called, without a completion callback, by _read_output.
ReaderCall(i) == MaxDisconnects + i
AllDiscCalls == 1..(MaxDisconnects + MaxConnects)
HasCallback(d) == d \in DiscCalls

HandleKinds == {"shell", "sftp", "client"}

\* ------------------------------------------------------------- Logger.log
\* Logger.log(self, message) takes one positional argument and no keywords:
\* a call that passes level=... raises TypeError before anything is logged.
LoggerLogRaises(keywords) == keywords # {}

\* ------------------------------------------------------------------ Init
\* Nothing sent and nothing recorded yet on the command path.
NoCommand ==
    /\ known_processes = <<>>
    /\ shell_sent = <<>>
    /\ commands = <<>>
    /\ lines = 0

\* No _format_permissions call.
NoPermissions ==
    /\ mode = 0
    /\ perm_str = <<>>

\* No list_directory call.
NoListing ==
    /\ remote_path = <<>>
    /\ dir_items = <<>>
    /\ items = <<>>
    /\ list_result = "none"

\* download_files with no thread started yet.
NoDownload ==
    /\ download = [pc |-> "idle", sftp |-> "none", files |-> <<>>, dirs |-> <<>>, i |-> 1,
                   retry_count |-> 0, downloaded_files |-> 0, failed_files |-> 0,
                   tally |-> <<>>, cb |-> <<>>]
    /\ selection = <<>>
    /\ obstacles = [unlistable |-> {}, unwritable |-> {}]
    /\ local = [dirs |-> {"."}, files |-> {}]

\* No upload_files, create_directory, delete_item or rename_item call.
IdleJob ==
    [pc |-> "idle", op |-> "none", args |-> <<>>, sftp |-> "none", i |-> 1,
     uploaded_files |-> 0, failed_files |-> 0, skipped_files |-> 0, tally |-> <<>>,
     cb |-> <<>>]
NoFileOp ==
    /\ remote = <<>>
    /\ requests = <<>>
    /\ job = IdleJob

\* Nothing received by _read_output.
NoStream == stream = [pc |-> "idle"]

\* _monitor_system is not looked at.
NoPoller == poller = [pc |-> "idle"]

\* SFTPOperations.__init__, lines 41-42: the remembered path is the default
\* one, and no list_directory call has been made.
default_remote_path == "/var/www/myforge.ai"
NoListings ==
    /\ current_remote_path = default_remote_path
    /\ listings = <<>>

Init ==
    /\ connected = FALSE
    /\ client = Null
    /\ shell = Null
    /\ sftp = Null
    /\ disconnect_lock = FALSE
    /\ transport = [c \in Attempts |-> "none"]
    /\ shellState = [s \in Attempts |-> [st |-> "none", on |-> Null]]
    /\ sftpState = [f \in OpIds |-> [st |-> "none", on |-> Null]]
    /\ conn = [i \in Attempts |->
                 [pc |-> "idle", creds |-> "none", auth |-> FALSE, cb |-> <<>>, during |-> Null]]
    /\ reader = [i \in Attempts |-> "idle"]
    /\ monitor = [i \in Attempts |-> "idle"]
    /\ disc = [d \in AllDiscCalls |-> [pc |-> "idle", cb |-> <<>>, ev |-> FALSE]]
    /\ worker = [pc |-> "idle", call |-> Null, cur |-> Null, rcp |-> TRUE,
                 seen |-> {}, tried |-> {}, failed |-> {}]
    /\ ops = [k \in OpIds |->
                [pc |-> "idle", got |-> "none", err |-> "none", ch |-> Null, cb |-> <<>>]]
    /\ faults = 0
    /\ closes = 0
    /\ NoCommand
    /\ NoPermissions
    /\ NoListing
    /\ NoDownload
    /\ NoFileOp
    /\ NoStream
    /\ NoPoller
    /\ NoListings

\* ------------------------------------------------------------- callbacks
\* on_status_change, on_connection_state_change, on_output and the completion
\* callbacks are foreign code: an invocation returns or raises.
MayRaise == IF faults < MaxFaults THEN BOOLEAN ELSE {FALSE}
Faulted(raised) == faults' = IF raised THEN faults + 1 ELSE faults

\* Budget used so far by the calls of the user interface.
CallsMade ==
    ConnectCost * Cardinality({i \in Attempts : conn[i].pc # "idle"})
    + Cardinality({d \in DiscCalls : disc[d].pc # "idle"})
    + Cardinality({k \in OpIds : ops[k].pc # "idle"})
    + closes

\* ------------------------------------------------------- transport library
\* closed attribute of a paramiko channel
ShellClosed(s) == shellState[s].st = "closed"
ShellExitReady(s) == shellState[s].st \in {"exited", "closed"}

\* Closing a client closes its transport and every channel opened on it.
ChannelsAfterClose(chans, c) ==
    [h \in DOMAIN chans |->
        IF chans[h].on = c /\ chans[h].st \in {"open", "exited"}
        THEN [chans[h] EXCEPT !.st = "closed"] ELSE chans[h]]

\* --------------------------------------------------------------- connect
\* connect(): records the endpoint and starts connect_thread, which holds the
\* credentials in its closure (lines 62-64, 143).
connect(i, credentials) ==
    /\ conn[i].pc = "idle"
    /\ \A j \in Attempts : j < i => conn[j].pc # "idle"
    /\ CallsMade + ConnectCost <= MaxCalls
    /\ conn' = [conn EXCEPT ![i].pc = "start", ![i].creds = credentials]
    /\ UNCHANGED <<connected, client, shell, sftp, disconnect_lock, transport, shellState,
                   sftpState, reader, monitor, disc, worker, ops, faults>>
    /\ UNCHANGED elsewhere

\* The two except clauses of connect_thread followed by the completion call
\* (lines 127-140): the status callback may raise inside the handler, and then
\* the exception leaves the thread before on_complete is reached.
ConnectFailed(c, success, message, handlerRaises) ==
    IF handlerRaises
    THEN [c EXCEPT !.pc = "dead"]
    ELSE [c EXCEPT !.pc = "done", !.cb = Append(@, <<success, message>>)]

\* connect_thread, lines 67-97: status callback, new client object, credentials.
connect_thread_start(i) ==
    /\ conn[i].pc = "start"
    /\ \E statusRaises \in MayRaise, completeRaises \in MayRaise, handlerRaises \in MayRaise :
         /\ Faulted(statusRaises \/ (~HasCredentials(conn[i].creds) /\ completeRaises))
         /\ IF statusRaises
            THEN /\ conn' = [conn EXCEPT ![i] =
                       ConnectFailed(@, FALSE, ConnectionFailed, handlerRaises)]
                 /\ UNCHANGED <<client, transport>>
            ELSE /\ client' = i
                 /\ transport' = [transport EXCEPT ![i] = "new"]
                 /\ IF ~HasCredentials(conn[i].creds)
                    THEN IF completeRaises
                         THEN conn' = [conn EXCEPT ![i] =
                                  ConnectFailed([@ EXCEPT !.cb = Append(@, <<FALSE, NoCredentials>>)],
                                                FALSE, ConnectionFailed, handlerRaises)]
                         ELSE conn' = [conn EXCEPT ![i].pc = "nocreds",
                                                   ![i].cb = Append(@, <<FALSE, NoCredentials>>)]
                    ELSE conn' = [conn EXCEPT ![i].pc = "auth"]
    /\ UNCHANGED <<connected, shell, sftp, disconnect_lock, shellState, sftpState,
                   reader, monitor, disc, worker, ops>>
    /\ UNCHANGED elsewhere

\* connect_thread, line 100: self.client.connect(**connect_params).
connect_thread_auth(i) ==
    /\ conn[i].pc = "auth"
    /\ \E outcome \in {"ok", "rejected", "network"}, handlerRaises \in MayRaise :
         IF client = Null \/ outcome = "network"
         THEN /\ conn' = [conn EXCEPT ![i] =
                    ConnectFailed([@ EXCEPT !.auth = (client # Null)], FALSE,
                                  ConnectionFailed, handlerRaises)]
              /\ Faulted(handlerRaises)
              /\ UNCHANGED transport
         ELSE IF outcome = "rejected"
         THEN /\ conn' = [conn EXCEPT ![i] =
                    ConnectFailed([@ EXCEPT !.auth = TRUE], FALSE,
                                  AuthenticationFailed, handlerRaises)]
              /\ Faulted(handlerRaises)
              /\ UNCHANGED transport
         ELSE /\ conn' = [conn EXCEPT ![i].pc = "shell", ![i].auth = TRUE]
              /\ transport' = [transport EXCEPT ![client] = "open"]
              /\ UNCHANGED faults
    /\ UNCHANGED <<connected, client, shell, sftp, disconnect_lock, shellState, sftpState,
                   reader, monitor, disc, worker, ops>>
    /\ UNCHANGED elsewhere

\* connect_thread, lines 103-104: self.shell = self.client.invoke_shell().
connect_thread_shell(i) ==
    /\ conn[i].pc = "shell"
    /\ \E opens \in BOOLEAN, handlerRaises \in MayRaise :
         IF client # Null /\ transport[client] = "open" /\ opens
         THEN /\ shell' = i
              /\ shellState' = [shellState EXCEPT ![i] = [st |-> "open", on |-> client]]
              /\ conn' = [conn EXCEPT ![i].pc = "up"]
              /\ UNCHANGED faults
         ELSE /\ conn' = [conn EXCEPT ![i] =
                    ConnectFailed(@, FALSE, ConnectionFailed, handlerRaises)]
              /\ Faulted(handlerRaises)
              /\ UNCHANGED <<shell, shellState>>
    /\ UNCHANGED <<connected, client, sftp, disconnect_lock, transport, sftpState,
                   reader, monitor, disc, worker, ops>>
    /\ UNCHANGED elsewhere

\* connect_thread, lines 107-125 and 139-140: the flag, the two loops, the
\* notifications (success is already True when a notification raises).  The
\* record keeps, in "during", the disconnect() call whose worker was running
\* when the connect reported success.
connect_thread_up(i) ==
    /\ conn[i].pc = "up"
    /\ connected' = TRUE
    /\ reader' = [reader EXCEPT ![i] = "loop"]
    /\ monitor' = [monitor EXCEPT ![i] = "loop"]
    /\ \E notifyRaises \in MayRaise, handlerRaises \in MayRaise :
         /\ Faulted(notifyRaises)
         /\ IF notifyRaises
            THEN conn' = [conn EXCEPT ![i] =
                     ConnectFailed(@, TRUE, ConnectionFailed, handlerRaises)]
            ELSE conn' = [conn EXCEPT ![i].pc = "done",
                                      ![i].cb = Append(@, <<TRUE, NoMessage>>),
                                      ![i].during = worker.call]
    /\ UNCHANGED <<client, shell, sftp, disconnect_lock, transport, shellState, sftpState,
                   disc, worker, ops>>
    /\ UNCHANGED elsewhere

\* ------------------------------------------------------------ disconnect
\* _read_output resumes, and ends, after its own call to disconnect() returns.
ReaderAfterReturn(d) ==
    IF HasCallback(d) THEN reader ELSE [reader EXCEPT ![d - MaxDisconnects] = "done"]

\* A disconnect() that goes on to its check whether or not the lock is held.
DisconnectEnterUnlocked(d) ==
    /\ disconnect_lock' = TRUE
    /\ disc' = [disc EXCEPT ![d].pc = "chk"]
    /\ reader' = IF HasCallback(d) THEN reader
                 ELSE [reader EXCEPT ![d - MaxDisconnects] = "disc"]

\* disconnect(), lines 147-151: non-blocking acquire of disconnect_lock.
DisconnectEnter(d) ==
    IF disconnect_lock
    THEN /\ disc' = [disc EXCEPT ![d].pc = "done",
                        ![d].cb = IF HasCallback(d)
                                  THEN Append(@, <<FALSE, DisconnectInProgress>>) ELSE @]
         /\ reader' = ReaderAfterReturn(d)
         /\ UNCHANGED disconnect_lock
    ELSE /\ disconnect_lock' = TRUE
         /\ disc' = [disc EXCEPT ![d].pc = "chk"]
         /\ reader' = IF HasCallback(d) THEN reader
                      ELSE [reader EXCEPT ![d - MaxDisconnects] = "disc"]

\* disconnect() called with a completion callback from the UI thread, which
\* runs one call at a time.
disconnect(d) ==
    /\ d \in DiscCalls
    /\ disc[d].pc = "idle"
    /\ CallsMade < MaxCalls
    /\ \A e \in DiscCalls : (e < d => disc[e].pc # "idle") /\ disc[e].pc # "chk"
    /\ DisconnectEnter(d)
    /\ UNCHANGED <<connected, client, shell, sftp, transport, shellState, sftpState,
                   conn, monitor, worker, ops, faults>>
    /\ UNCHANGED elsewhere

\* A fresh disconnect_thread_worker for call d (lines 163, 170, 221).
NewWorker(d) ==
    [pc |-> "start", call |-> d, cur |-> Null, rcp |-> TRUE,
     seen |-> {}, tried |-> {}, failed |-> {}]
NoWorker ==
    [pc |-> "idle", call |-> Null, cur |-> Null, rcp |-> TRUE,
     seen |-> {}, tried |-> {}, failed |-> {}]

\* A disconnect() that tears down whatever the flag says.
AlreadyDisconnectedNever(flag) == FALSE
\* Line 153: if not self.connected.
AlreadyDisconnected(flag) == ~flag

\* disconnect(), lines 153-161 and 221: the already-disconnected return, or the
\* flag flip and the start of disconnect_thread_worker.
disconnect_check(d) ==
    /\ disc[d].pc = "chk"
    /\ IF AlreadyDisconnected(connected)
       THEN /\ disconnect_lock' = FALSE
            /\ disc' = [disc EXCEPT ![d].pc = "done",
                           ![d].cb = IF HasCallback(d)
                                     THEN Append(@, <<TRUE, NotConnected>>) ELSE @]
            /\ UNCHANGED <<connected, worker>>
       ELSE /\ connected' = FALSE
            /\ disc' = [disc EXCEPT ![d].pc = "wait"]
            /\ worker' = NewWorker(d)
            /\ UNCHANGED disconnect_lock
    /\ reader' = ReaderAfterReturn(d)
    /\ UNCHANGED <<client, shell, sftp, transport, shellState, sftpState, conn, monitor,
                   ops, faults>>
    /\ UNCHANGED elsewhere

\* An end of the worker that keeps disconnect_lock.
WorkerFinishHolding(calls, emitted) ==
    /\ UNCHANGED disconnect_lock
    /\ worker' = NoWorker
    /\ disc' = [disc EXCEPT ![worker.call].pc = "done",
                            ![worker.call].ev = emitted,
                            ![worker.call].cb = IF HasCallback(worker.call) THEN @ \o calls ELSE @]

\* End of disconnect_thread_worker: the completion calls made (none when the
\* caller gave no callback), whether the connection-state event was emitted,
\* and the finally clause releasing the lock (lines 209-219).
WorkerFinish(calls, emitted) ==
    /\ disconnect_lock' = FALSE
    /\ worker' = NoWorker
    /\ disc' = [disc EXCEPT ![worker.call].pc = "done",
                            ![worker.call].ev = emitted,
                            ![worker.call].cb = IF HasCallback(worker.call) THEN @ \o calls ELSE @]

\* The except clause of disconnect_thread_worker (lines 212-217): log, status
\* callback (which may raise again), completion callback with (False, str(e)).
WorkerHandlerCalls(handlerRaises) ==
    IF handlerRaises THEN <<>> ELSE << <<FALSE, InternalError>> >>

\* disconnect_thread_worker, lines 165-168.
worker_start ==
    /\ worker.pc = "start"
    /\ \E statusRaises \in MayRaise, handlerRaises \in MayRaise :
         /\ Faulted(statusRaises)
         /\ IF statusRaises
            THEN WorkerFinish(WorkerHandlerCalls(handlerRaises), FALSE)
            ELSE /\ worker' = [worker EXCEPT !.pc = "shell"]
                 /\ UNCHANGED <<disconnect_lock, disc>>
    /\ UNCHANGED <<connected, client, shell, sftp, transport, shellState, sftpState,
                   conn, reader, monitor, ops>>
    /\ UNCHANGED elsewhere

\* Lines 172-173, 182-183, 191-192: take the handle and null the field.
WorkerTake(kind, handle, closeStep, nextStep) ==
    worker' = [worker EXCEPT !.cur = handle,
                             !.seen = IF handle # Null THEN @ \cup {kind} ELSE @,
                             !.pc = IF handle # Null THEN closeStep ELSE nextStep]

\* A close whose except clause forgets to clear resources_closed_properly.
WorkerClosedForgetful(kind, attempted, raises, nextStep) ==
    worker' = [worker EXCEPT !.pc = nextStep,
                             !.cur = Null,
                             !.tried = IF attempted THEN @ \cup {kind} ELSE @,
                             !.failed = IF attempted /\ raises THEN @ \cup {kind} ELSE @]

\* The close of one handle inside its own try (lines 174-180, 184-189, 193-198).
WorkerClosed(kind, attempted, raises, nextStep) ==
    worker' = [worker EXCEPT !.pc = nextStep,
                             !.cur = Null,
                             !.tried = IF attempted THEN @ \cup {kind} ELSE @,
                             !.failed = IF attempted /\ raises THEN @ \cup {kind} ELSE @,
                             !.rcp = IF attempted /\ raises THEN FALSE ELSE @]

\* Line 176: close() is called on the shell only when it is not yet closed.
ShellCloseAttempted(s) == ~ShellClosed(s)

worker_shell ==
    /\ worker.pc = "shell"
    /\ WorkerTake("shell", shell, "shell_close", "sftp")
    /\ shell' = Null
    /\ UNCHANGED <<connected, client, sftp, disconnect_lock, transport, shellState, sftpState,
                   conn, reader, monitor, disc, ops, faults>>
    /\ UNCHANGED elsewhere

worker_shell_close ==
    /\ worker.pc = "shell_close"
    /\ \E raises \in BOOLEAN :
         /\ WorkerClosed("shell", ShellCloseAttempted(worker.cur), raises, "sftp")
         /\ shellState' = IF ShellCloseAttempted(worker.cur) /\ ~raises
                          THEN [shellState EXCEPT ![worker.cur].st = "closed"]
                          ELSE shellState
    /\ UNCHANGED <<connected, client, shell, sftp, disconnect_lock, transport, sftpState,
                   conn, reader, monitor, disc, ops, faults>>
    /\ UNCHANGED elsewhere

worker_sftp ==
    /\ worker.pc = "sftp"
    /\ WorkerTake("sftp", sftp, "sftp_close", "client")
    /\ sftp' = Null
    /\ UNCHANGED <<connected, client, shell, disconnect_lock, transport, shellState, sftpState,
                   conn, reader, monitor, disc, ops, faults>>
    /\ UNCHANGED elsewhere

worker_sftp_close ==
    /\ worker.pc = "sftp_close"
    /\ \E raises \in BOOLEAN :
         /\ WorkerClosed("sftp", TRUE, raises, "client")
         /\ sftpState' = IF ~raises THEN [sftpState EXCEPT ![worker.cur].st = "closed"]
                         ELSE sftpState
    /\ UNCHANGED <<connected, client, shell, sftp, disconnect_lock, transport, shellState,
                   conn, reader, monitor, disc, ops, faults>>
    /\ UNCHANGED elsewhere

worker_client ==
    /\ worker.pc = "client"
    /\ WorkerTake("client", client, "client_close", "notify")
    /\ client' = Null
    /\ UNCHANGED <<connected, shell, sftp, disconnect_lock, transport, shellState, sftpState,
                   conn, reader, monitor, disc, ops, faults>>
    /\ UNCHANGED elsewhere

worker_client_close ==
    /\ worker.pc = "client_close"
    /\ \E raises \in BOOLEAN :
         /\ WorkerClosed("client", TRUE, raises, "notify")
         /\ IF raises
            THEN UNCHANGED <<transport, shellState, sftpState>>
            ELSE /\ transport' = [transport EXCEPT ![worker.cur] = "closed"]
                 /\ shellState' = ChannelsAfterClose(shellState, worker.cur)
                 /\ sftpState' = ChannelsAfterClose(sftpState, worker.cur)
    /\ UNCHANGED <<connected, client, shell, sftp, disconnect_lock,
                   conn, reader, monitor, disc, ops, faults>>
    /\ UNCHANGED elsewhere

\* The result handed to the completion callback on line 210.
TeardownResult(rcp) == <<rcp, IF rcp THEN NoMessage ELSE CloseError>>

\* Which notification of lines 202-210 raises, in source order: status,
\* connection state, output, completion (only when a callback was given).
NotifyOutcomes(d) ==
    IF faults < MaxFaults
    THEN {"none", "status", "state", "output"} \cup (IF HasCallback(d) THEN {"complete"} ELSE {})
    ELSE {"none"}

\* disconnect_thread_worker, lines 200-219: the notifications; the first that
\* raises enters the except clause.  The connection-state event has been
\* emitted unless the status callback raised before it.
worker_notify ==
    /\ worker.pc = "notify"
    /\ \E raised \in NotifyOutcomes(worker.call), handlerRaises \in MayRaise :
         /\ Faulted(raised # "none")
         /\ WorkerFinish(
              CASE raised = "none" -> << TeardownResult(worker.rcp) >>
                [] raised = "complete" ->
                     << TeardownResult(worker.rcp) >> \o WorkerHandlerCalls(handlerRaises)
                [] OTHER -> WorkerHandlerCalls(handlerRaises),
              raised # "status")
    /\ UNCHANGED <<connected, client, shell, sftp, transport, shellState, sftpState,
                   conn, reader, monitor, ops>>
    /\ UNCHANGED elsewhere

\* --------------------------------------------------------- _read_output
\* The while condition on line 285.
LoopCondition == connected /\ shell # Null /\ ~ShellClosed(shell)

\* Lines 326-330, after the loop: the flag as the loop's epilogue leaves it.
AfterLoop(flag) == IF flag /\ shell = Null THEN FALSE ELSE flag

\* One evaluation of the while condition and, when it holds, one pass through
\* the try of lines 286-324.  received: what the channel does ("data": recv
\* returns a chunk, "idle": nothing to read, "timeout": socket.timeout,
\* "error": any other exception); a raising on_output inside the try is such
\* an exception too.  A pass that leaves the loop runs the epilogue.
read_output(i) ==
    /\ reader[i] = "loop"
    /\ \E received \in {"data", "idle", "timeout", "error"},
          outputRaises \in MayRaise, handlerOutputRaises \in MayRaise :
         IF ~LoopCondition
         THEN /\ reader' = [reader EXCEPT ![i] = "done"]
              /\ connected' = AfterLoop(connected)
              /\ UNCHANGED <<disconnect_lock, disc, faults>>
         ELSE IF received = "error" \/ (received = "data" /\ outputRaises)
         THEN /\ Faulted(handlerOutputRaises \/ (received = "data" /\ outputRaises))
              /\ IF handlerOutputRaises
                 THEN /\ reader' = [reader EXCEPT ![i] = "dead"]
                      /\ UNCHANGED <<connected, disconnect_lock, disc>>
                 ELSE /\ DisconnectEnter(ReaderCall(i))
                      /\ UNCHANGED connected
         ELSE IF received = "idle" /\ ShellExitReady(shell)
         THEN /\ connected' = FALSE
              /\ reader' = [reader EXCEPT ![i] = "done"]
              /\ UNCHANGED <<disconnect_lock, disc, faults>>
         ELSE /\ reader' = reader
              /\ UNCHANGED <<connected, disconnect_lock, disc, faults>>
    /\ UNCHANGED <<client, shell, sftp, transport, shellState, sftpState,
                   conn, monitor, worker, ops>>
    /\ UNCHANGED elsewhere

\* ------------------------------------------------------ get_sftp_client
\* Texts of the exception open_sftp() raises.
ErrorTexts == {"not connected", "eof", "other"}
\* Line 422: the text says that the SSH connection is gone.
ConnectionGone(text) == text \in {"not connected", "eof"}
\* Line 420 calls self.logger.log(message, level='error').
HandlerLogKeywords == {"level"}
\* Line 414: no cached channel, or its socket is closed.
NeedsChannel == sftp = Null \/ sftpState[sftp].st = "closed"

\* close_sftp(), lines 436-443, called on the caller's thread: the cached
\* channel is closed and the field cleared inside one try, so a close() that
\* raises skips the assignment.
close_sftp ==
    /\ closes < MaxCloses
    /\ CallsMade < MaxCalls
    /\ closes' = closes + 1
    /\ \E raises \in BOOLEAN :
         IF sftp = Null
         THEN UNCHANGED <<sftp, sftpState>>
         ELSE IF raises
         THEN UNCHANGED <<sftp, sftpState>>
         ELSE /\ sftp' = Null
              /\ sftpState' = [sftpState EXCEPT ![sftp].st = "closed"]
    /\ UNCHANGED <<connected, client, shell, disconnect_lock, transport, shellState,
                   conn, reader, monitor, disc, worker, ops, faults>>
    /\ UNCHANGED <<commandVars, permissionVars, listVars, downloadVars, fileVars, streamVars, pollVars, pathVars>>

\* ------------------------------------------------------- Transfer Engine
\* A public operation of SFTPOperations (list_directory, download_files,
\* upload_files, create_directory, delete_item, rename_item, get_file_content,
\* save_file_content) starts its worker thread.
sftp_operation(k) ==
    /\ ops[k].pc = "idle"
    /\ \A j \in OpIds : j < k => ops[j].pc # "idle"
    /\ CallsMade < MaxCalls
    /\ ops' = [ops EXCEPT ![k].pc = "get"]
    /\ UNCHANGED <<connected, client, shell, sftp, disconnect_lock, transport, shellState,
                   sftpState, conn, reader, monitor, disc, worker, faults>>
    /\ UNCHANGED elsewhere

\* The worker calls get_sftp_client() outside any try (sftp.py lines 56-60):
\* client.py lines 410-411, then the worker's "if not sftp" branch.
get_sftp_client_check(k) ==
    /\ ops[k].pc = "get"
    /\ ops' = [ops EXCEPT ![k] =
                 IF ~connected
                 THEN [@ EXCEPT !.pc = "done", !.got = "null",
                                !.cb = Append(@, <<FALSE, ChannelUnavailable>>)]
                 ELSE [@ EXCEPT !.pc = "open"]]
    /\ UNCHANGED <<connected, client, shell, sftp, disconnect_lock, transport, shellState,
                   sftpState, conn, reader, monitor, disc, worker, faults>>
    /\ UNCHANGED elsewhere

\* client.py lines 413-425: the cached channel, or open_sftp() on the current
\* client; the except clause logs with a keyword Logger.log does not take, so
\* the TypeError leaves get_sftp_client and, uncaught, ends the worker thread.
get_sftp_client_open(k) ==
    /\ ops[k].pc = "open"
    /\ \E opens \in BOOLEAN, text \in ErrorTexts :
         IF ~NeedsChannel
         THEN /\ ops' = [ops EXCEPT ![k].pc = "body", ![k].got = "channel", ![k].ch = sftp]
              /\ UNCHANGED <<connected, sftp, sftpState>>
         ELSE IF client # Null /\ transport[client] = "open" /\ opens
         THEN /\ sftp' = k
              /\ sftpState' = [sftpState EXCEPT ![k] = [st |-> "open", on |-> client]]
              /\ ops' = [ops EXCEPT ![k].pc = "body", ![k].got = "channel", ![k].ch = k]
              /\ UNCHANGED connected
         ELSE IF LoggerLogRaises(HandlerLogKeywords)
         THEN /\ ops' = [ops EXCEPT ![k].pc = "dead", ![k].got = "raised", ![k].err = text]
              /\ UNCHANGED <<connected, sftp, sftpState>>
         ELSE /\ connected' = IF ConnectionGone(text) THEN FALSE ELSE connected
              /\ ops' = [ops EXCEPT ![k].pc = "done", ![k].got = "null", ![k].err = text,
                                    ![k].cb = Append(@, <<FALSE, ChannelUnavailable>>)]
              /\ UNCHANGED <<sftp, sftpState>>
    /\ UNCHANGED <<client, shell, disconnect_lock, transport, shellState,
                   conn, reader, monitor, disc, worker, faults>>
    /\ UNCHANGED elsewhere

\* The try of the worker (sftp.py lines 62-156 and the like): the SFTP verbs
\* succeed or raise; the completion callback is called inside the try, so when
\* it raises the except clause calls it again.
sftp_operation_body(k) ==
    /\ ops[k].pc = "body"
    /\ \E verbsRaise \in BOOLEAN, completeRaises \in MayRaise :
         /\ Faulted(completeRaises /\ ~(verbsRaise \/ sftpState[ops[k].ch].st # "open"))
         /\ ops' = [ops EXCEPT ![k].pc = "done", ![k].cb =
                IF verbsRaise \/ sftpState[ops[k].ch].st # "open"
                THEN Append(@, <<FALSE, OperationError>>)
                ELSE IF completeRaises
                THEN @ \o << <<TRUE, NoMessage>>, <<FALSE, OperationError>> >>
                ELSE Append(@, <<TRUE, NoMessage>>)]
    /\ UNCHANGED <<connected, client, shell, sftp, disconnect_lock, transport, shellState,
                   sftpState, conn, reader, monitor, disc, worker>>
    /\ UNCHANGED elsewhere

\* ------------------------------------------------------------ remote end
\* The remote shell process exits: its exit status arrives.
RemoteExit(s) ==
    /\ shellState[s].st = "open"
    /\ shellState' = [shellState EXCEPT ![s].st = "exited"]
    /\ UNCHANGED <<connected, client, shell, sftp, disconnect_lock, transport,
                   sftpState, conn, reader, monitor, disc, worker, ops, faults>>
    /\ UNCHANGED elsewhere

\* The remote end closes the shell channel.
RemoteClose(s) ==
    /\ shellState[s].st \in {"open", "exited"}
    /\ shellState' = [shellState EXCEPT ![s].st = "closed"]
    /\ UNCHANGED <<connected, client, shell, sftp, disconnect_lock, transport,
                   sftpState, conn, reader, monitor, disc, worker, ops, faults>>
    /\ UNCHANGED elsewhere

Next ==
    \/ \E i \in Attempts, c \in Credentials : connect(i, c)
    \/ \E i \in Attempts : connect_thread_start(i)
    \/ \E i \in Attempts : connect_thread_auth(i)
    \/ \E i \in Attempts : connect_thread_shell(i)
    \/ \E i \in Attempts : connect_thread_up(i)
    \/ \E d \in DiscCalls : disconnect(d)
    \/ \E d \in AllDiscCalls : disconnect_check(d)
    \/ worker_start
    \/ worker_shell
    \/ worker_shell_close
    \/ worker_sftp
    \/ worker_sftp_close
    \/ worker_client
    \/ worker_client_close
    \/ worker_notify
    \/ \E i \in Attempts : read_output(i)
    \/ \E k \in OpIds : sftp_operation(k)
    \/ \E k \in OpIds : get_sftp_client_check(k)
    \/ \E k \in OpIds : get_sftp_client_open(k)
    \/ \E k \in OpIds : sftp_operation_body(k)
    \/ close_sftp
    \/ \E s \in Attempts : RemoteExit(s)
    \/ \E s \in Attempts : RemoteClose(s)

Spec == Init /\ [][Next]_vars

\* ---------------------------------------------------------- command path
\* The session as the first connect(), with a password, leaves it on success.
ConnectedSession ==
    /\ connected = TRUE
    /\ client = 1
    /\ shell = 1
    /\ sftp = Null
    /\ disconnect_lock = FALSE
    /\ transport = [c \in Attempts |-> IF c = 1 THEN "open" ELSE "none"]
    /\ shellState = [s \in Attempts |->
                       IF s = 1 THEN [st |-> "open", on |-> 1] ELSE [st |-> "none", on |-> Null]]
    /\ sftpState = [f \in OpIds |-> [st |-> "none", on |-> Null]]
    /\ conn = [i \in Attempts |->
                 IF i = 1
                 THEN [pc |-> "done", creds |-> "password", auth |-> TRUE,
                       cb |-> << <<TRUE, NoMessage>> >>, during |-> Null]
                 ELSE [pc |-> "idle", creds |-> "none", auth |-> FALSE, cb |-> <<>>, during |-> Null]]
    /\ reader = [i \in Attempts |-> IF i = 1 THEN "loop" ELSE "idle"]
    /\ monitor = [i \in Attempts |-> IF i = 1 THEN "loop" ELSE "idle"]
    /\ disc = [d \in AllDiscCalls |-> [pc |-> "idle", cb |-> <<>>, ev |-> FALSE]]
    /\ worker = NoWorker
    /\ ops = [k \in OpIds |->
                [pc |-> "idle", got |-> "none", err |-> "none", ch |-> Null, cb |-> <<>>]]
    /\ faults = 0

\* Texts are sequences of characters; a command is the sequence of its fields
\* between colons, the first one a word.
Strip(text) ==
    LET first == CHOOSE n \in 1..(Len(text) + 1) :
                    /\ \A m \in 1..(n - 1) : text[m] = " "
                    /\ (n <= Len(text) => text[n] # " ")
        last == CHOOSE n \in 0..Len(text) :
                    /\ \A m \in (n + 1)..Len(text) : text[m] = " "
                    /\ (n >= 1 => text[n] # " ")
    IN  IF first > last THEN <<>> ELSE SubSeq(text, first, last)

\* The commands the terminal sends: plain ones, and kill-process:<pid>.
Commands ==
    { <<"ls">>, <<"echo", <<"a">>>>,
      <<"kill-process", <<"1">>>>, <<"kill-process", <<"2">>>>,
      <<"kill-process", <<" ", "2">>>>, <<"kill-process", <<"1">>, <<"2">>>> }

\* The digits the pattern of line 336 captures.
LinePids == {<<"1">>, <<"2">>}

\* What _process_output_line looks for in a line (lines 335-339): the words
\* "server started", the word "uvicorn", and "process ID" followed by digits
\* (no digits: the empty text).
OutputLines ==
    [server_started : BOOLEAN, uvicorn : BOOLEAN, pid : LinePids \cup {<<>>}]

\* Line 238: command.startswith("kill-process:").
IsKillCommand(command) == Len(command) >= 2 /\ command[1] = "kill-process"

\* What the shell is sent: "kill <pid>\n" (line 264) or the command (line 242).
KillText(pid) == [verb |-> "kill", text |-> <<pid>>]
Verbatim(command) == [verb |-> command[1], text |-> Tail(command)]

\* known_processes[name] = pid on a dict that keeps insertion order (line 340).
DictSet(dict, name, pid) ==
    IF \E n \in 1..Len(dict) : dict[n][1] = name
    THEN [n \in 1..Len(dict) |-> IF dict[n][1] = name THEN <<name, pid>> ELSE dict[n]]
    ELSE Append(dict, <<name, pid>>)

\* Lines 268-273: the first entry whose pid equals the given one is deleted,
\* and the loop breaks.
DeleteKilled(dict, pid) ==
    IF \E n \in 1..Len(dict) : dict[n][2] = pid
    THEN LET hit == CHOOSE n \in 1..Len(dict) :
                       dict[n][2] = pid /\ \A m \in 1..(n - 1) : dict[m][2] # pid
         IN  SubSeq(dict, 1, hit - 1) \o SubSeq(dict, hit + 1, Len(dict))
    ELSE dict

\* _process_output_line, lines 335-341, called by _read_output for each
\* complete line.
process_output_line(line) ==
    /\ lines < MaxLines
    /\ lines' = lines + 1
    /\ known_processes' =
         IF (line.server_started \/ line.uvicorn) /\ line.pid # <<>>
         THEN DictSet(known_processes, IF line.uvicorn THEN "uvicorn" ELSE "server", line.pid)
         ELSE known_processes
    /\ UNCHANGED <<shell_sent, commands, connectionVars, closes, permissionVars, listVars,
                   downloadVars, fileVars, streamVars, pollVars, pathVars>>

\* send_command, lines 231-253, and _handle_process_kill, lines 257-278.
\* sendRaises: shell.send() raises; outputRaises: on_output raises.
send_command(command) ==
    /\ Len(commands) < MaxCommands
    /\ \E sendRaises \in BOOLEAN, outputRaises \in BOOLEAN :
         IF ~connected \/ shell = Null
         THEN /\ commands' = Append(commands, [command |-> command, returned |-> FALSE])
              /\ UNCHANGED <<known_processes, shell_sent>>
         ELSE IF IsKillCommand(command)
         THEN IF Len(command) # 2 \/ sendRaises
              THEN /\ commands' = Append(commands, [command |-> command, returned |-> FALSE])
                   /\ UNCHANGED <<known_processes, shell_sent>>
              ELSE LET pid == Strip(command[2])
                   IN  /\ shell_sent' = Append(shell_sent, KillText(pid))
                       /\ known_processes' = DeleteKilled(known_processes, pid)
                       /\ commands' = Append(commands,
                            [command |-> command,
                             returned |-> ~(outputRaises
                                            /\ known_processes' # known_processes)])
         ELSE /\ shell_sent' = IF sendRaises THEN shell_sent
                               ELSE Append(shell_sent, Verbatim(command))
              /\ commands' = Append(commands, [command |-> command, returned |-> ~sendRaises])
              /\ UNCHANGED known_processes
    /\ UNCHANGED <<lines, connectionVars, closes, permissionVars, listVars,
                   downloadVars, fileVars, streamVars, pollVars, pathVars>>

InitCommand ==
    /\ ConnectedSession \/ Init
    /\ closes = 0
    /\ NoCommand
    /\ NoPermissions
    /\ NoListing
    /\ NoDownload
    /\ NoFileOp
    /\ NoStream
    /\ NoPoller
    /\ NoListings

NextCommand ==
    \/ \E line \in OutputLines : process_output_line(line)
    \/ \E command \in Commands : send_command(command)

CommandSpec == InitCommand /\ [][NextCommand]_vars

\* ------------------------------------------------------ _format_permissions
\* stat.S_ISDIR and stat.S_ISLNK: the file type is bits 12-15 of st_mode.
FileType(m) == (m \div 4096) % 16
S_ISDIR(m) == FileType(m) = 4
S_ISLNK(m) == FileType(m) = 10

\* Line 695: the table of the eight renderings, each a text of three characters.
Perms ==
    << <<"-", "-", "-">>, <<"-", "-", "x">>, <<"-", "w", "-">>, <<"-", "w", "x">>,
       <<"r", "-", "-">>, <<"r", "-", "x">>, <<"r", "w", "-">>, <<"r", "w", "x">> >>

\* A rendering that takes the lowest three bits whatever the shift.
PermissionTripletUnshifted(m, shift) == Perms[(m % 8) + 1]
\* Lines 707, 709, 711: perms[(mode >> shift) & 0o7].
PermissionTriplet(m, shift) == Perms[((m \div (2 ^ shift)) % 8) + 1]

\* _format_permissions, lines 693-713.
FormatPermissions(m) ==
    << IF S_ISDIR(m) THEN "d" ELSE IF S_ISLNK(m) THEN "l" ELSE "-" >>
    \o PermissionTriplet(m, 6) \o PermissionTriplet(m, 3) \o PermissionTriplet(m, 0)

format_permissions ==
    /\ perm_str = <<>>
    /\ perm_str' = FormatPermissions(mode)
    /\ UNCHANGED <<mode, connectionVars, closes, commandVars, listVars, downloadVars, fileVars, streamVars, pollVars, pathVars>>

InitPermissions ==
    /\ ConnectedSession
    /\ closes = 0
    /\ NoCommand
    /\ NoListing
    /\ NoDownload
    /\ NoFileOp
    /\ NoStream
    /\ NoPoller
    /\ NoListings
    /\ mode \in 0..MaxMode
    /\ perm_str = <<>>

NextPermissions == format_permissions

PermissionSpec == InitPermissions /\ [][NextPermissions]_vars

\* ------------------------------------------------------------ list_directory
\* File names are sequences of code points: "a", "B", "b", "Ab", "_".
Names == {<<97>>, <<66>>, <<98>>, <<65, 98>>, <<95>>}
\* The name of the parent entry, "..".
DotDot == <<46, 46>>
\* st_mode of a directory (0o40755), a symlink (0o120777), a file (0o100644).
ItemModes == {16877, 41471, 33188}
\* Paths listed: "/" and "/www".
RemotePaths == {<<>>, <<"www">>}

\* The attributes sftp.listdir_attr returns: names are unique in a directory.
Listings ==
    {l \in UNION {[1..n -> [filename : Names, st_mode : ItemModes]] : n \in 0..MaxEntries} :
        \A m, n \in 1..Len(l) : l[m].filename = l[n].filename => m = n}

\* str.lower() on the code points of A-Z.
Lower(name) == [n \in 1..Len(name) |-> IF name[n] \in 65..90 THEN name[n] + 32 ELSE name[n]]

\* a <= b for Python strings: by code point, a prefix first.
TextLessEq(a, b) ==
    LET differ == {n \in 1..Len(a) : n <= Len(b) /\ a[n] # b[n]}
    IN  IF differ = {} THEN Len(a) <= Len(b)
        ELSE LET n == CHOOSE n \in differ : \A m \in differ : n <= m
             IN  a[n] < b[n]

\* A sort key that keeps the case of the name.
SortKeyCased(name) == name
\* Lines 128-129: key=lambda x: x['name'].lower().
SortKey(name) == Lower(name)

\* list.sort(key=...), a stable sort: each element goes behind those already
\* placed whose key is not greater.
RECURSIVE SortByName(_)
SortByName(seq) ==
    IF seq = <<>> THEN <<>>
    ELSE LET sorted == SortByName(SubSeq(seq, 1, Len(seq) - 1))
             x == seq[Len(seq)]
             before == Cardinality({n \in 1..Len(sorted) :
                                      TextLessEq(SortKey(sorted[n].name), SortKey(x.name))})
         IN  SubSeq(sorted, 1, before) \o <<x>> \o SubSeq(sorted, before + 1, Len(sorted))

\* posixpath.normpath(posixpath.join(path, '..')).
ParentPath(path) == IF path = <<>> THEN <<>> ELSE SubSeq(path, 1, Len(path) - 1)

\* Lines 92-120: the item built for one attribute (size and modification
\* time are copied and left out here).
ItemInfo(path, attr) ==
    [name |-> attr.filename,
     path |-> Append(path, attr.filename),
     type |-> IF S_ISDIR(attr.st_mode) THEN "directory"
              ELSE IF S_ISLNK(attr.st_mode) THEN "link" ELSE "file",
     permissions |-> FormatPermissions(attr.st_mode),
     is_parent |-> FALSE]

\* Lines 72-133: the parent entry unless at the root, the directories sorted,
\* then the other entries sorted.
ListItems(path, attrs) ==
    LET infos == [n \in 1..Len(attrs) |-> ItemInfo(path, attrs[n])]
        parent == IF path # <<>> /\ ParentPath(path) # path
                  THEN << [name |-> DotDot, path |-> ParentPath(path), type |-> "directory",
                           permissions |-> <<>>, is_parent |-> TRUE] >>
                  ELSE <<>>
        dirs == SelectSeq(infos, LAMBDA x : x.type = "directory")
        files == SelectSeq(infos, LAMBDA x : x.type # "directory")
    IN  parent \o SortByName(dirs) \o SortByName(files)

\* list_thread, lines 62-156, once it has a channel: listdir_attr raises, or
\* the items are built and handed over.
list_thread ==
    /\ list_result = "none"
    /\ \E raises \in BOOLEAN :
         IF raises
         THEN list_result' = "error" /\ items' = <<>>
         ELSE list_result' = "ok" /\ items' = ListItems(remote_path, dir_items)
    /\ UNCHANGED <<remote_path, dir_items, connectionVars, closes, commandVars, permissionVars,
                   downloadVars, fileVars, streamVars, pollVars, pathVars>>

InitListing ==
    /\ ConnectedSession
    /\ closes = 0
    /\ NoCommand
    /\ NoPermissions
    /\ NoDownload
    /\ NoFileOp
    /\ NoStream
    /\ NoPoller
    /\ NoListings
    /\ remote_path \in RemotePaths
    /\ dir_items \in Listings
    /\ items = <<>>
    /\ list_result = "none"

NextListing == list_thread

ListingSpec == InitListing /\ [][NextListing]_vars

\* ------------------------------------------------------------ download_files
\* The remote tree the downloads are taken from: the file "f" and the
\* directory "d", which holds the file "d/a" and the directory "d/e", which
\* holds the file "d/e/b".  Local paths mirror the remote ones.
RemoteChildren(dir) ==
    IF dir = "d" THEN << [path |-> "d/a", is_dir |-> FALSE], [path |-> "d/e", is_dir |-> TRUE] >>
    ELSE IF dir = "d/e" THEN << [path |-> "d/e/b", is_dir |-> FALSE] >>
    ELSE <<>>
RemoteDirs == {"d", "d/e"}
\* os.path.dirname of the local path of a file ("." is local_dir itself).
LocalDirOf(file) ==
    IF file = "d/a" THEN "d" ELSE IF file = "d/e/b" THEN "d/e" ELSE "."
\* The directories os.makedirs creates for one path: the path and its parents.
MadeDirs(dir) == IF dir = "d/e" THEN {"d", "d/e"} ELSE {dir}

\* The items the file explorer hands over: entries of a listing.
FileItem == [name |-> "f", type |-> "file", is_parent |-> FALSE]
DirItem == [name |-> "d", type |-> "directory", is_parent |-> FALSE]
ParentItem == [name |-> "..", type |-> "directory", is_parent |-> TRUE]
ItemSelections ==
    { <<FileItem>>, <<DirItem>>, <<FileItem, DirItem>>, <<DirItem, FileItem>>,
      <<ParentItem, FileItem>> }

\* Remote directories whose listdir_attr raises, and local directories
\* os.makedirs cannot create (with a directory, those beneath it).
Obstacles ==
    [unlistable : SUBSET RemoteDirs, unwritable : {{}, {"d/e"}, {"d", "d/e"}}]

\* _count_dir_files, lines 607-658: the local directory is recorded first;
\* a listdir_attr that raises ends the call for this directory only (line
\* 657); files are appended and directories entered in the order listed.
RECURSIVE CountDirFiles(_, _, _), CountEntries(_, _, _)
CountDirFiles(dir, found, unlistable) ==
    LET recorded == [found EXCEPT !.dirs = Append(@, dir)]
    IN  IF dir \in unlistable THEN recorded
        ELSE CountEntries(RemoteChildren(dir), recorded, unlistable)
CountEntries(entries, found, unlistable) ==
    IF entries = <<>> THEN found
    ELSE CountEntries(Tail(entries),
                      IF Head(entries).is_dir
                      THEN CountDirFiles(Head(entries).path, found, unlistable)
                      ELSE [found EXCEPT !.files = Append(@, Head(entries).path)],
                      unlistable)

\* Lines 187-202: the parent entry is skipped, a directory is walked, a file
\* is taken as it is.
RECURSIVE CountItems(_, _, _)
CountItems(chosen, found, unlistable) ==
    IF chosen = <<>> THEN found
    ELSE CountItems(Tail(chosen),
                    IF Head(chosen).is_parent THEN found
                    ELSE IF Head(chosen).type = "directory"
                    THEN CountDirFiles(Head(chosen).name, found, unlistable)
                    ELSE [found EXCEPT !.files = Append(@, Head(chosen).name)],
                    unlistable)

\* Line 244.
max_file_retries == 2
\* A retry loop that gives up after one retry.
MayRetryOnce(retry_count) == retry_count <= 1
\* Lines 247 and 261: retry_count <= max_file_retries.
MayRetry(retry_count) == retry_count <= max_file_retries

SomeFailed == "Some files failed to download"
\* A result that reports success whatever failed.
DownloadResultRosy(downloaded_files, failed_files) ==
    <<TRUE, downloaded_files, failed_files, NoMessage>>
\* Lines 276 and 284-285: the arguments of the completion callback.
DownloadResult(downloaded_files, failed_files) ==
    <<failed_files = 0, downloaded_files, failed_files,
      IF failed_files = 0 THEN NoMessage ELSE SomeFailed>>

\* What get_sftp_client() does for its caller (client.py lines 408-425): None
\* when not connected; otherwise the channel, or the TypeError of line 420
\* when open_sftp() fails.
GetSftpClientOutcomes == IF ~connected THEN {"null"} ELSE {"channel", "raised"}

\* The except clause of lines 289-297: status callback, then the completion
\* callback with (False, 0, 0, message).
DownloadFailed(d, handlerRaises) ==
    IF handlerRaises
    THEN [d EXCEPT !.pc = "dead"]
    ELSE [d EXCEPT !.pc = "done", !.cb = Append(@, <<FALSE, 0, 0, OperationError>>)]

\* After file i: the next file, or the final status (lines 218, 275).
NextFile(d) ==
    [d EXCEPT !.i = @ + 1, !.retry_count = 0,
              !.pc = IF d.i + 1 <= Len(d.files) THEN "file" ELSE "finish"]

\* download_files, lines 161-170 and 299-300: the thread is started on the
\* items given.
download_files(chosen, found) ==
    /\ download.pc = "idle"
    /\ download' = [download EXCEPT !.pc = "get"]
    /\ selection' = chosen
    /\ obstacles' = found
    /\ UNCHANGED <<local, connectionVars, closes, commandVars, permissionVars, listVars,
                   fileVars, streamVars, pollVars, pathVars>>

\* download_thread, lines 172-176.
download_thread_get ==
    /\ download.pc = "get"
    /\ \E outcome \in GetSftpClientOutcomes :
         download' =
            IF outcome = "raised" THEN [download EXCEPT !.pc = "dead"]
            ELSE IF outcome = "null"
            THEN [download EXCEPT !.pc = "done",
                                  !.cb = Append(@, <<FALSE, 0, 0, ChannelUnavailable>>)]
            ELSE [download EXCEPT !.pc = "enumerate", !.sftp = "channel"]
    /\ UNCHANGED <<selection, obstacles, local, connectionVars, closes, commandVars,
                   permissionVars, listVars,
                   fileVars, streamVars, pollVars, pathVars>>

\* Lines 179-205: the files to download and the directories to create.
download_thread_enumerate ==
    /\ download.pc = "enumerate"
    /\ LET found == CountItems(selection, [files |-> <<>>, dirs |-> <<>>],
                               obstacles.unlistable)
       IN  download' =
              [download EXCEPT
                 !.files = found.files,
                 !.dirs = found.dirs,
                 !.tally = [n \in 1..Len(found.files) |->
                              [attempts |-> 0, downloaded |-> 0, failed |-> 0]],
                 !.pc = "mkdirs"]
    /\ UNCHANGED <<selection, obstacles, local, connectionVars, closes, commandVars,
                   permissionVars, listVars,
                   fileVars, streamVars, pollVars, pathVars>>

\* Lines 207-215: each directory in its own try; a failure is only logged.
download_thread_mkdirs ==
    /\ download.pc = "mkdirs"
    /\ local' = [local EXCEPT !.dirs =
                   @ \cup UNION {MadeDirs(download.dirs[n]) :
                                   n \in {m \in 1..Len(download.dirs) :
                                            download.dirs[m] \notin obstacles.unwritable}}]
    /\ download' = [download EXCEPT
                      !.pc = IF download.files = <<>> THEN "finish" ELSE "file"]
    /\ UNCHANGED <<selection, obstacles, connectionVars, closes, commandVars,
                   permissionVars, listVars,
                   fileVars, streamVars, pollVars, pathVars>>

\* Lines 218-245 for file i: the status callback, outside the try of line 230,
\* then the parent directory once more (a failure is only logged).
download_thread_file ==
    /\ download.pc = "file"
    /\ \E statusRaises \in MayRaise, handlerRaises \in MayRaise :
         /\ Faulted(statusRaises)
         /\ IF statusRaises
            THEN /\ download' = DownloadFailed(download, handlerRaises)
                 /\ UNCHANGED local
            ELSE /\ download' = [download EXCEPT !.pc = "attempt", !.retry_count = 0]
                 /\ local' =
                      LET dir == LocalDirOf(download.files[download.i])
                      IN  IF dir \notin obstacles.unwritable
                          THEN [local EXCEPT !.dirs = @ \cup MadeDirs(dir)] ELSE local
    /\ UNCHANGED <<selection, obstacles, connected, client, shell, sftp, disconnect_lock,
                   transport, shellState, sftpState, conn, reader, monitor, disc, worker,
                   ops, closes, commandVars, permissionVars, listVars,
                   fileVars, streamVars, pollVars, pathVars>>

\* One pass of the retry loop, lines 247-273.  The transfer succeeds only on
\* a channel and into a directory that exists.  After a failure that may be
\* retried the channel is asked for again (lines 263-267): None replaces it,
\* an exception is swallowed.  A failure that may not be retried is raised
\* to line 271, which counts the file as failed.
download_thread_attempt ==
    /\ download.pc = "attempt"
    /\ LET n == download.i
           tried == [download EXCEPT !.tally[n].attempts = @ + 1]
       IN  \E transferred \in BOOLEAN, refreshed \in GetSftpClientOutcomes :
             IF /\ transferred
                /\ download.sftp = "channel"
                /\ LocalDirOf(download.files[n]) \in local.dirs
             THEN /\ download' = NextFile([tried EXCEPT !.downloaded_files = @ + 1,
                                                        !.tally[n].downloaded = @ + 1])
                  /\ local' = [local EXCEPT !.files = @ \cup {download.files[n]}]
             ELSE /\ download' =
                       IF MayRetry(download.retry_count + 1)
                       THEN [tried EXCEPT
                               !.retry_count = @ + 1,
                               !.sftp = IF refreshed = "channel" THEN "channel"
                                        ELSE IF refreshed = "null" THEN "none" ELSE @]
                       ELSE NextFile([tried EXCEPT !.failed_files = @ + 1,
                                                   !.tally[n].failed = @ + 1])
                  /\ UNCHANGED local
    /\ UNCHANGED <<selection, obstacles, connectionVars, closes, commandVars,
                   permissionVars, listVars,
                   fileVars, streamVars, pollVars, pathVars>>

\* Lines 275-297: the final status and the completion callback, both inside
\* the try.
download_thread_finish ==
    /\ download.pc = "finish"
    /\ \E raised \in {"none"} \cup (IF faults < MaxFaults THEN {"status", "complete"} ELSE {}),
          handlerRaises \in MayRaise :
         /\ Faulted(raised # "none")
         /\ LET result == DownloadResult(download.downloaded_files, download.failed_files)
            IN  download' =
                   IF raised = "none"
                   THEN [download EXCEPT !.pc = "done", !.cb = Append(@, result)]
                   ELSE IF raised = "status"
                   THEN DownloadFailed(download, handlerRaises)
                   ELSE DownloadFailed([download EXCEPT !.cb = Append(@, result)],
                                       handlerRaises)
    /\ UNCHANGED <<selection, obstacles, local, connected, client, shell, sftp,
                   disconnect_lock, transport, shellState, sftpState, conn, reader, monitor,
                   disc, worker, ops, closes, commandVars, permissionVars, listVars,
                   fileVars, streamVars, pollVars, pathVars>>

\* The remote shell exits and _read_output clears the flag (client.py lines
\* 308-311) while the download runs.
connection_drops ==
    /\ connected
    /\ shell # Null
    /\ shellState[shell].st = "open"
    /\ download.pc \notin {"done", "dead"}
    /\ shellState' = [shellState EXCEPT ![shell].st = "exited"]
    /\ connected' = FALSE
    /\ reader' = [i \in Attempts |-> IF reader[i] = "loop" THEN "done" ELSE reader[i]]
    /\ UNCHANGED <<client, shell, sftp, disconnect_lock, transport, sftpState, conn, monitor,
                   disc, worker, ops, faults, closes, commandVars, permissionVars, listVars,
                   downloadVars, fileVars, streamVars, pollVars, pathVars>>

InitDownload ==
    /\ ConnectedSession \/ Init
    /\ closes = 0
    /\ NoCommand
    /\ NoPermissions
    /\ NoListing
    /\ NoDownload
    /\ NoFileOp
    /\ NoStream
    /\ NoPoller
    /\ NoListings

NextDownload ==
    \/ \E chosen \in ItemSelections, found \in Obstacles : download_files(chosen, found)
    \/ download_thread_get
    \/ download_thread_enumerate
    \/ download_thread_mkdirs
    \/ download_thread_file
    \/ download_thread_attempt
    \/ download_thread_finish
    \/ connection_drops

DownloadSpec == InitDownload /\ [][NextDownload]_vars

\* ------------------------------------------------- remote file operations
\* Remote paths are sequences of components.  The remote file system holds
\* the directory /a and, at most, what FsPaths names beneath it.
FsPaths ==
    { <<"a">>, <<"a", "x">>, <<"a", "y">>, <<"a", "x", "f">>, <<"a", "x", "s">>,
      <<"a", "x", "s", "g">> }
\* posixpath.join and posixpath.dirname.
Join(dir, name) == Append(dir, name)
Dirname(path) == SubSeq(path, 1, Len(path) - 1)
ChildrenOf(dir) == {p \in FsPaths : Len(p) = Len(dir) + 1 /\ Dirname(p) = dir}

Absent == [kind |-> "none", content |-> "none"]
Directory == [kind |-> "dir", content |-> "none"]
RegularFile(content) == [kind |-> "file", content |-> content]
\* File contents: what the remote files hold at first, what a local file may
\* hold instead, and what a transfer that broke leaves behind.
OldContent == "old"
NewContent == "new"
Partial == "partial"

Exists(fs, path) == fs[path].kind # "none"
IsDir(fs, path) == fs[path].kind = "dir"
\* What is beneath a directory, at any depth.
Beneath(dir) == {p \in FsPaths : Len(p) > Len(dir) /\ SubSeq(p, 1, Len(dir)) = dir}

\* The remote file systems an operation may find: /a is a directory, and
\* whatever exists lies in a directory.
RemoteStates ==
    { fs \in [FsPaths -> {Absent, Directory, RegularFile(OldContent)}] :
        /\ IsDir(fs, <<"a">>)
        /\ \A p \in FsPaths \ {<<"a">>} : Exists(fs, p) => IsDir(fs, Dirname(p)) }

\* The thread of an operation before get_sftp_client().
NewJob(op, args) ==
    [IdleJob EXCEPT !.pc = "get", !.op = op, !.args = args]

\* What no step of a file operation writes, and the session state it leaves
\* alone when a callback may raise.
besideFiles ==
    <<closes, commandVars, permissionVars, listVars, downloadVars, streamVars, pollVars, pathVars>>
wiring ==
    <<connected, client, shell, sftp, disconnect_lock, transport, shellState, sftpState,
      conn, reader, monitor, disc, worker, ops>>

\* The first lines of every operation thread (sftp.py lines 314-318, 401-405,
\* 455-459, 501-505): nothing to do without a channel.  The result has the
\* counters only for an upload.
NoChannelResult(op) ==
    IF op = "upload" THEN <<FALSE, 0, 0, ChannelUnavailable>> ELSE <<FALSE, ChannelUnavailable>>

job_get_channel ==
    /\ job.pc = "get"
    /\ \E outcome \in GetSftpClientOutcomes :
         job' = IF outcome = "raised" THEN [job EXCEPT !.pc = "dead"]
                ELSE IF outcome = "null"
                THEN [job EXCEPT !.pc = "done", !.cb = Append(@, NoChannelResult(job.op))]
                ELSE [job EXCEPT !.pc = "body", !.sftp = "channel"]
    /\ UNCHANGED <<remote, requests, connectionVars, besideFiles>>

\* ------------------------------------------------------------ upload_files
MaxUploads == 2
LocalFiles == [name : {"x", "y"}, content : {OldContent, NewContent}]
UploadBatches ==
    UNION {[1..n -> LocalFiles] : n \in 1..MaxUploads}

UploadSomeFailed == "Some files failed to upload"

\* upload_files, lines 302-313 and 389: the thread is started.
upload_files(local_files, overwrite) ==
    /\ job.pc = "idle"
    /\ job' = NewJob("upload", [local_files |-> local_files, overwrite |-> overwrite])
    /\ UNCHANGED <<remote, requests, connectionVars, besideFiles>>

\* The except clause of lines 379-386.
UploadFailed(j, handlerRaises) ==
    IF handlerRaises
    THEN [j EXCEPT !.pc = "dead"]
    ELSE [j EXCEPT !.pc = "done", !.cb = Append(@, <<FALSE, 0, 0, OperationError>>)]

\* A loop that stays on a file whose upload failed.
RetryUpload(j, outcome) ==
    [j EXCEPT !.i = IF outcome = "failed" THEN @ ELSE @ + 1, !.tally = Append(@, outcome),
              !.pc = IF outcome = "failed" \/ j.i + 1 <= Len(j.args.local_files)
                     THEN "body" ELSE "finish"]
\* After file i: the next file or the final status (lines 326, 359).
NextUpload(j, outcome) ==
    [j EXCEPT !.i = @ + 1, !.tally = Append(@, outcome),
              !.pc = IF j.i + 1 <= Len(j.args.local_files) THEN "body" ELSE "finish"]

\* Lines 335-340: file_exists is set only by a stat that returns; the except
\* clause takes every error for absence.
FileExists(fs, path, statRaises) == Exists(fs, path) /\ ~statRaises

\* Lines 342 (the test that skips a file).
Skips(file_exists, overwrite) == file_exists /\ ~overwrite

\* sftp.put on the remote end: it cannot write over a directory or into what
\* is not one; a transfer that breaks leaves the file unfinished.
PutOutcomes(fs, path) ==
    IF IsDir(fs, path) \/ ~IsDir(fs, Dirname(path)) THEN {"refused"}
    ELSE {"ok", "refused", "broken"}

\* One pass of the loop of lines 326-357.
upload_thread_file ==
    /\ job.pc = "body"
    /\ job.op = "upload"
    /\ LET local_file == job.args.local_files[job.i]
           target_path == Join(<<"a">>, local_file.name)
       IN  \E statusRaises \in MayRaise, handlerRaises \in MayRaise, statRaises \in BOOLEAN,
              put \in PutOutcomes(remote, target_path) :
             /\ Faulted(statusRaises)
             /\ IF statusRaises
                THEN /\ job' = UploadFailed(job, handlerRaises)
                     /\ UNCHANGED <<remote, requests>>
                ELSE IF Skips(FileExists(remote, target_path, statRaises), job.args.overwrite)
                THEN /\ job' = NextUpload([job EXCEPT !.skipped_files = @ + 1], "skipped")
                     /\ UNCHANGED <<remote, requests>>
                ELSE /\ requests' = Append(requests, [op |-> "put", path |-> target_path])
                     /\ remote' =
                          IF put = "ok"
                          THEN [remote EXCEPT ![target_path] = RegularFile(local_file.content)]
                          ELSE IF put = "broken"
                          THEN [remote EXCEPT ![target_path] = RegularFile(Partial)]
                          ELSE remote
                     /\ job' = IF put = "ok"
                               THEN NextUpload([job EXCEPT !.uploaded_files = @ + 1], "uploaded")
                               ELSE NextUpload([job EXCEPT !.failed_files = @ + 1], "failed")
    /\ UNCHANGED <<wiring, besideFiles>>

\* Lines 359-386: the final status and the completion callback, both inside
\* the try.  (The listing that line 377 starts reads the remote directory
\* and changes nothing.)
upload_thread_finish ==
    /\ job.pc = "finish"
    /\ job.op = "upload"
    /\ \E raised \in {"none"} \cup (IF faults < MaxFaults THEN {"status", "complete"} ELSE {}),
          handlerRaises \in MayRaise :
         /\ Faulted(raised # "none")
         /\ LET result == <<job.failed_files = 0, job.uploaded_files, job.failed_files,
                            IF job.failed_files = 0 THEN NoMessage ELSE UploadSomeFailed>>
            IN  job' = IF raised = "none"
                       THEN [job EXCEPT !.pc = "done", !.cb = Append(@, result)]
                       ELSE IF raised = "status"
                       THEN UploadFailed(job, handlerRaises)
                       ELSE UploadFailed([job EXCEPT !.cb = Append(@, result)], handlerRaises)
    /\ UNCHANGED <<remote, requests, wiring, besideFiles>>

\* -------------------------------------------------------- create_directory
NewNames == {"x", "y"}
AlreadyExists == "already exists"

\* create_directory, lines 391-399 and 437: the thread is started.
create_directory(new_dir_name) ==
    /\ job.pc = "idle"
    /\ job' = NewJob("create", [remote_parent_dir |-> <<"a">>, new_dir_name |-> new_dir_name])
    /\ UNCHANGED <<remote, requests, connectionVars, besideFiles>>

\* What a thread with one request does after it (lines 422-434, 472-479,
\* 520-529): on_complete(True, None) inside the try, so that a callback that
\* raises is called again by the except clause; on_complete(False, message)
\* when the request raised.
Completed(j, requestRaises, completeRaises, handlerRaises) ==
    LET called == IF requestRaises THEN j.cb ELSE Append(j.cb, <<TRUE, NoMessage>>)
    IN  IF ~requestRaises /\ ~completeRaises
        THEN [j EXCEPT !.pc = "done", !.cb = called]
        ELSE [j EXCEPT !.pc = IF handlerRaises THEN "dead" ELSE "done",
                       !.cb = Append(called, <<FALSE, OperationError>>)]

\* sftp.mkdir on the remote end.
MkdirOutcomes(fs, path) ==
    IF Exists(fs, path) \/ ~IsDir(fs, Dirname(path)) THEN {"refused"} ELSE {"ok", "refused"}

\* create_dir_thread, lines 407-434.  The try of lines 411-417 holds the stat
\* and the completion callback; its bare except takes an error of either for
\* "the directory does not exist" and goes on to mkdir.
create_dir_thread ==
    /\ job.pc = "body"
    /\ job.op = "create"
    /\ LET target_path == Join(job.args.remote_parent_dir, job.args.new_dir_name)
       IN  \E statRaises \in BOOLEAN, existsRaises \in MayRaise, completeRaises \in MayRaise,
              handlerRaises \in MayRaise, mkdir \in MkdirOutcomes(remote, target_path) :
             LET found == Exists(remote, target_path) /\ ~statRaises
                 told == IF found THEN [job EXCEPT !.cb = Append(@, <<FALSE, AlreadyExists>>)]
                         ELSE job
             IN  IF found /\ ~existsRaises
                 THEN /\ job' = [told EXCEPT !.pc = "done"]
                      /\ UNCHANGED <<remote, requests, faults>>
                 ELSE /\ existsRaises => found
                      /\ completeRaises => (mkdir = "ok" /\ ~existsRaises)
                      /\ handlerRaises => (~existsRaises /\ (mkdir # "ok" \/ completeRaises))
                      /\ Faulted(existsRaises \/ completeRaises \/ handlerRaises)
                      /\ requests' = Append(requests, [op |-> "mkdir", path |-> target_path])
                      /\ remote' = IF mkdir = "ok"
                                   THEN [remote EXCEPT ![target_path] = Directory] ELSE remote
                      /\ job' = Completed(told, mkdir # "ok", completeRaises, handlerRaises)
    /\ UNCHANGED <<wiring, besideFiles>>

\* ------------------------------------------------------------- delete_item
\* The items of a listing of /a that can be deleted or renamed.
ItemsOf(fs) ==
    { [path |-> p, type |-> IF IsDir(fs, p) THEN "directory" ELSE "file"] :
        p \in {q \in ChildrenOf(<<"a">>) : Exists(fs, q)} }

\* delete_item, lines 439-446 and 482: the thread is started.
delete_item(item) ==
    /\ job.pc = "idle"
    /\ job' = NewJob("delete", item)
    /\ UNCHANGED <<remote, requests, connectionVars, besideFiles>>

\* sftp.rmdir on the remote end: only an empty directory can be removed.
RmdirSucceeds(fs, dir, unremovable) ==
    /\ dir \notin unremovable
    /\ \A p \in ChildrenOf(dir) : ~Exists(fs, p)

\* A loop over the items that ends at the first item it could not delete.
LoopStops(failed) == ~failed
\* Lines 682-683: the error of an item is logged and the loop goes on.
LoopGoesOn(failed) == TRUE

\* A directory delete whose errors stay inside it.
Swallowed(failed) == FALSE
\* Line 691: the error of listdir or rmdir is raised again.
Reraised(failed) == failed

\* _delete_directory_recursive, lines 660-691, on st = [fs, requests, raised]:
\* listdir, then every item (a directory is entered, a file removed; an
\* error is logged and the loop goes on, lines 682-683), then rmdir.
\* unreadable: directories whose listdir raises; unremovable: paths whose
\* remove or rmdir raises.
RECURSIVE DeleteDirectoryRecursive(_, _, _, _), DeleteItems(_, _, _, _)
DeleteDirectoryRecursive(st, remote_dir, unreadable, unremovable) ==
    IF remote_dir \in unreadable \/ ~IsDir(st.fs, remote_dir)
    THEN [st EXCEPT !.raised = Reraised(TRUE)]
    ELSE LET emptied == DeleteItems(st, {p \in ChildrenOf(remote_dir) : Exists(st.fs, p)},
                                    unreadable, unremovable)
             asked == Append(emptied.requests, [op |-> "rmdir", path |-> remote_dir])
         IN  IF RmdirSucceeds(emptied.fs, remote_dir, unremovable)
             THEN [fs |-> [emptied.fs EXCEPT ![remote_dir] = Absent],
                   requests |-> asked, raised |-> FALSE]
             ELSE [fs |-> emptied.fs, requests |-> asked, raised |-> Reraised(TRUE)]
DeleteItems(st, item_names, unreadable, unremovable) ==
    IF item_names = {} THEN st
    ELSE LET item_path == CHOOSE p \in item_names : TRUE
             after ==
                IF IsDir(st.fs, item_path)
                THEN [DeleteDirectoryRecursive(st, item_path, unreadable, unremovable)
                        EXCEPT !.raised = FALSE]
                ELSE [st EXCEPT
                        !.requests = Append(@, [op |-> "remove", path |-> item_path]),
                        !.fs = IF item_path \in unremovable THEN @
                               ELSE [@ EXCEPT ![item_path] = Absent]]
         IN  IF LoopGoesOn(Exists(after.fs, item_path))
             THEN DeleteItems(after, item_names \ {item_path}, unreadable, unremovable)
             ELSE after

\* delete_thread, lines 447-479.
delete_thread ==
    /\ job.pc = "body"
    /\ job.op = "delete"
    /\ \E unreadable \in SUBSET {p \in FsPaths \ {<<"a">>} : IsDir(remote, p)},
          unremovable \in SUBSET {p \in FsPaths \ {<<"a">>} : Exists(remote, p)},
          completeRaises \in MayRaise, handlerRaises \in MayRaise :
         LET st == [fs |-> remote, requests |-> requests, raised |-> FALSE]
             after ==
                IF job.args.type = "directory"
                THEN DeleteDirectoryRecursive(st, job.args.path, unreadable, unremovable)
                ELSE [fs |-> IF job.args.path \in unremovable THEN remote
                             ELSE [remote EXCEPT ![job.args.path] = Absent],
                      requests |-> Append(requests, [op |-> "remove", path |-> job.args.path]),
                      raised |-> job.args.path \in unremovable]
         IN  /\ completeRaises => ~after.raised
             /\ handlerRaises => (after.raised \/ completeRaises)
             /\ Faulted(completeRaises \/ handlerRaises)
             /\ remote' = after.fs
             /\ requests' = after.requests
             /\ job' = Completed(job, after.raised, completeRaises, handlerRaises)
    /\ UNCHANGED <<wiring, besideFiles>>

\* ------------------------------------------------------------- rename_item
\* rename_item, lines 484-492 and 532: the thread is started.  The item is
\* a file or an empty directory.
rename_item(item, new_name) ==
    /\ job.pc = "idle"
    /\ \A p \in ChildrenOf(item.path) : ~Exists(remote, p)
    /\ job' = NewJob("rename", [item |-> item, new_name |-> new_name])
    /\ UNCHANGED <<remote, requests, connectionVars, besideFiles>>

\* sftp.rename on the remote end: servers differ on a target that exists.
RenameOutcomes(fs, old_path, new_path) ==
    IF ~Exists(fs, old_path) THEN {"refused"}
    ELSE IF Exists(fs, new_path) THEN {"refused", "replaced"}
    ELSE {"ok", "refused"}

\* rename_thread, lines 500-529; the try of lines 512-518 is that of
\* create_dir_thread.
rename_thread ==
    /\ job.pc = "body"
    /\ job.op = "rename"
    /\ LET old_path == job.args.item.path
           new_path == Join(Dirname(old_path), job.args.new_name)
       IN  \E statRaises \in BOOLEAN, existsRaises \in MayRaise, completeRaises \in MayRaise,
              handlerRaises \in MayRaise, rename \in RenameOutcomes(remote, old_path, new_path) :
             LET found == Exists(remote, new_path) /\ ~statRaises
                 told == IF found THEN [job EXCEPT !.cb = Append(@, <<FALSE, AlreadyExists>>)]
                         ELSE job
             IN  IF found /\ ~existsRaises
                 THEN /\ job' = [told EXCEPT !.pc = "done"]
                      /\ UNCHANGED <<remote, requests, faults>>
                 ELSE /\ existsRaises => found
                      /\ completeRaises => (rename # "refused" /\ ~existsRaises)
                      /\ handlerRaises => (~existsRaises /\ (rename = "refused" \/ completeRaises))
                      /\ Faulted(existsRaises \/ completeRaises \/ handlerRaises)
                      /\ requests' = Append(requests,
                                            [op |-> "rename", path |-> old_path, to |-> new_path])
                      /\ remote' = IF rename = "refused" \/ old_path = new_path THEN remote
                                   ELSE [remote EXCEPT ![new_path] = remote[old_path],
                                                       ![old_path] = Absent]
                      /\ job' = Completed(told, rename = "refused", completeRaises, handlerRaises)
    /\ UNCHANGED <<wiring, besideFiles>>

InitFileOps ==
    /\ ConnectedSession \/ Init
    /\ closes = 0
    /\ NoCommand
    /\ NoPermissions
    /\ NoListing
    /\ NoDownload
    /\ NoStream
    /\ NoPoller
    /\ NoListings
    /\ remote \in RemoteStates
    /\ requests = <<>>
    /\ job = IdleJob

NextFileOps ==
    \/ \E local_files \in UploadBatches, overwrite \in BOOLEAN : upload_files(local_files, overwrite)
    \/ \E new_dir_name \in NewNames : create_directory(new_dir_name)
    \/ \E item \in ItemsOf(remote) : delete_item(item)
    \/ \E item \in ItemsOf(remote), new_name \in NewNames : rename_item(item, new_name)
    \/ job_get_channel
    \/ upload_thread_file
    \/ upload_thread_finish
    \/ create_dir_thread
    \/ delete_thread
    \/ rename_thread
    \/ connection_drops

FileOpsSpec == InitFileOps /\ [][NextFileOps]_vars

\* ------------------------------------------- _read_output: line buffering
\* The bytes the shell may send, and the characters they decode to: a
\* letter, the newline, the two bytes of a two-byte UTF-8 character, and the
\* replacement character decode(errors='replace') puts for a byte sequence
\* that is not UTF-8.
Utf8 ==
    [letter |-> 97, newline |-> 10, lead |-> 195, continuation |-> 169,
     character |-> 233, replacement |-> 65533]
Bytes == {Utf8.letter, Utf8.newline, Utf8.lead, Utf8.continuation}
MaxStream == 4
Streams == UNION {[1..n -> Bytes] : n \in 1..MaxStream}

\* bytes.decode('utf-8', errors='replace'), line 288, of one chunk: the
\* decoder sees the chunk alone, so that a sequence cut by the end of the
\* chunk is malformed.
RECURSIVE Decode(_)
Decode(bytes) ==
    IF bytes = <<>> THEN <<>>
    ELSE IF Head(bytes) = Utf8.lead
    THEN IF Len(bytes) >= 2 /\ bytes[2] = Utf8.continuation
         THEN <<Utf8.character>> \o Decode(SubSeq(bytes, 3, Len(bytes)))
         ELSE <<Utf8.replacement>> \o Decode(Tail(bytes))
    ELSE IF Head(bytes) = Utf8.continuation
    THEN <<Utf8.replacement>> \o Decode(Tail(bytes))
    ELSE <<Head(bytes)>> \o Decode(Tail(bytes))

\* buffer.split('\n'), lines 300-302: the lines before each newline and what
\* follows the last newline.
RECURSIVE SplitLines(_, _)
SplitLines(text, found) ==
    IF text = <<>> THEN found
    ELSE IF Head(text) = Utf8.newline
    THEN SplitLines(Tail(text), [lines |-> Append(found.lines, found.rest), rest |-> <<>>])
    ELSE SplitLines(Tail(text), [found EXCEPT !.rest = Append(@, Head(text))])

\* One pass of the loop, lines 285-305, in which recv returns the next n
\* bytes of the stream and on_output returns: the chunk is decoded and added
\* to the buffer, and every complete line goes to _process_output_line.
recv(n) ==
    /\ reader[1] = "loop"
    /\ LoopCondition
    /\ stream.pc = "loop"
    /\ n <= Len(stream.pending)
    /\ LET data == Decode(SubSeq(stream.pending, 1, n))
           split == SplitLines(stream.buffer \o data, [lines |-> <<>>, rest |-> <<>>])
       IN  stream' = [stream EXCEPT
                        !.pending = SubSeq(@, n + 1, Len(@)),
                        !.received = @ \o SubSeq(stream.pending, 1, n),
                        !.buffer = split.rest,
                        !.lines = @ \o split.lines]
    /\ UNCHANGED <<connectionVars, closes, commandVars, permissionVars, listVars,
                   downloadVars, fileVars, pollVars, pathVars>>

InitStream ==
    /\ ConnectedSession
    /\ closes = 0
    /\ NoCommand
    /\ NoPermissions
    /\ NoListing
    /\ NoDownload
    /\ NoFileOp
    /\ NoPoller
    /\ NoListings
    /\ stream \in [pc : {"loop"}, pending : Streams, received : {<<>>}, buffer : {<<>>},
                   lines : {<<>>}]

NextStream ==
    \/ \E n \in 1..MaxStream : recv(n)
    \/ read_output(1)

StreamSpec == InitStream /\ [][NextStream]_vars

\* ---------------------------------------------------------- _monitor_system
\* Line 377.
interval == 60
MaxCycles == 2

\* The three commands of a cycle, lines 385, 388 and 391.
DiagnosticCommands ==
    << [verb |-> "uptime", text |-> <<>>],
       [verb |-> "free", text |-> <<>>],
       [verb |-> "df", text |-> <<>>] >>

\* _monitor_system at the while of line 380, started by connect_thread
\* (lines 113, 370-373).  late counts the commands sent while the connected
\* flag was false.
NewPoller == [pc |-> "while", n |-> 1, slept |-> 0, cycles |-> 0, late |-> 0]

\* The shell field refers to a channel that is not closed.
ShellUsable == shell # Null /\ ~ShellClosed(shell)

\* A test between two commands that does not look at the connected flag.
CycleGoesOnUnflagged(flag, usable, send_ready) == usable /\ send_ready
\* Lines 387 and 390.
CycleGoesOn(flag, usable, send_ready) == flag /\ usable /\ send_ready

\* Line 380: the while condition (that of _read_output).
poll_while ==
    /\ poller.pc = "while"
    /\ poller.cycles < MaxCycles \/ ~LoopCondition
    /\ poller' = IF LoopCondition
                 THEN [poller EXCEPT !.pc = "ready", !.cycles = @ + 1, !.n = 1, !.slept = 0]
                 ELSE [poller EXCEPT !.pc = "done"]
    /\ UNCHANGED <<connectionVars, closes, commandVars, permissionVars, listVars,
                   downloadVars, fileVars, streamVars, pathVars>>

\* Line 384, and the else of lines 392-394: the test before the first
\* command does not read the connected flag.
poll_ready ==
    /\ poller.pc = "ready"
    /\ \E send_ready \in BOOLEAN :
         poller' = IF ShellUsable /\ send_ready
                   THEN [poller EXCEPT !.pc = "send"] ELSE [poller EXCEPT !.pc = "done"]
    /\ UNCHANGED <<connectionVars, closes, commandVars, permissionVars, listVars,
                   downloadVars, fileVars, streamVars, pathVars>>

\* Lines 385-386, 388-389, 391: shell.send of command n, then the sleep of
\* 0.2 s.  A send on no shell or on a closed one raises, and so may any
\* other (the channel has a timeout): lines 401-404 leave the loop.
poll_send ==
    /\ poller.pc = "send"
    /\ \E raises \in BOOLEAN :
         IF ~ShellUsable \/ raises
         THEN /\ poller' = [poller EXCEPT !.pc = "done"]
              /\ UNCHANGED shell_sent
         ELSE /\ shell_sent' = Append(shell_sent, DiagnosticCommands[poller.n])
              /\ poller' = [poller EXCEPT
                              !.late = IF connected THEN @ ELSE @ + 1,
                              !.pc = IF poller.n < Len(DiagnosticCommands)
                                     THEN "check" ELSE "wait"]
    /\ UNCHANGED <<known_processes, commands, lines, connectionVars, closes, permissionVars,
                   listVars, downloadVars, fileVars, streamVars, pathVars>>

\* Lines 387 and 390: the test between two commands.
poll_check ==
    /\ poller.pc = "check"
    /\ \E send_ready \in BOOLEAN :
         poller' = IF CycleGoesOn(connected, ShellUsable, send_ready)
                   THEN [poller EXCEPT !.pc = "send", !.n = @ + 1]
                   ELSE [poller EXCEPT !.pc = "done"]
    /\ UNCHANGED <<connectionVars, closes, commandVars, permissionVars, listVars,
                   downloadVars, fileVars, streamVars, pathVars>>

\* Lines 397-400: one pass of the for loop (the test, then a sleep of one
\* second), or its end after interval passes; then the while again.
poll_wait ==
    /\ poller.pc = "wait"
    /\ poller' = IF poller.slept = interval \/ ~connected \/ (shell # Null /\ ShellClosed(shell))
                 THEN [poller EXCEPT !.pc = "while"]
                 ELSE [poller EXCEPT !.slept = @ + 1]
    /\ UNCHANGED <<connectionVars, closes, commandVars, permissionVars, listVars,
                   downloadVars, fileVars, streamVars, pathVars>>

InitPoller ==
    /\ ConnectedSession
    /\ closes = 0
    /\ NoCommand
    /\ NoPermissions
    /\ NoListing
    /\ NoDownload
    /\ NoFileOp
    /\ NoStream
    /\ poller = NewPoller
    /\ NoListings

\* The poller beside one disconnect() from the user interface, the reader
\* loop and the remote end.  No SFTP channel is opened here, so that the
\* worker has none to close.
NextPoller ==
    \/ poll_while
    \/ poll_ready
    \/ poll_send
    \/ poll_check
    \/ poll_wait
    \/ disconnect(1)
    \/ \E d \in AllDiscCalls : disconnect_check(d)
    \/ worker_start
    \/ worker_shell
    \/ worker_shell_close
    \/ worker_sftp
    \/ worker_client
    \/ worker_client_close
    \/ worker_notify
    \/ read_output(1)
    \/ RemoteExit(1)
    \/ RemoteClose(1)

PollerSpec == InitPoller /\ [][NextPoller]_vars

\* ------------------------------------------------ remembered remote path
\* SFTPOperations.list_directory, sftp.py lines 44-156: every call starts a
\* list_thread of its own, and each thread writes current_remote_path.
MaxListings == 2
ListedPaths == {default_remote_path, "/srv", "/tmp"}
NoPath == "None"
ListingError == "Error listing directory"

besidePaths ==
    <<closes, commandVars, permissionVars, listVars, downloadVars, fileVars, streamVars,
      pollVars>>

\* The thread i-th call of list_directory started.
Listing(i) == listings[i]
Threads == 1..Len(listings)

\* Lines 52-53 and 156: a call without a path lists the remembered one; the
\* path is read in the caller's thread, before list_thread starts.
list_directory(path) ==
    /\ Len(listings) < MaxListings
    /\ listings' = Append(listings,
                          [pc |-> "get",
                           remote_path |-> IF path = NoPath THEN current_remote_path ELSE path,
                           listed |-> FALSE, cb |-> <<>>])
    /\ UNCHANGED <<current_remote_path, connectionVars, besidePaths>>

\* Lines 57-61: get_sftp_client() is called outside the try; without a
\* channel the thread reports (False, [], message) and returns.
list_thread_get(i) ==
    /\ Listing(i).pc = "get"
    /\ \E outcome \in GetSftpClientOutcomes :
         \/ /\ outcome = "null"
            /\ \E raised \in MayRaise :
                 /\ Faulted(raised)
                 /\ listings' = [listings EXCEPT
                                   ![i].pc = IF raised THEN "dead" ELSE "done",
                                   ![i].cb = Append(@, <<FALSE, ChannelUnavailable>>)]
         \/ /\ outcome = "raised"
            /\ listings' = [listings EXCEPT ![i].pc = "dead"]
            /\ UNCHANGED faults
         \/ /\ outcome = "channel"
            /\ listings' = [listings EXCEPT ![i].pc = "listdir"]
            /\ UNCHANGED faults
    /\ UNCHANGED <<current_remote_path, wiring, besidePaths>>

\* What the field holds after lines 63-136: the assignment of line 136 is
\* reached only when nothing before it in the try block raised.
AlwaysListedPath(current, listed_path, succeeded) == listed_path
RememberedPath(current, listed_path, succeeded) ==
    IF succeeded THEN listed_path ELSE current

\* Lines 63-136: the status callback, listdir_attr() and the building of the
\* items; then the remembered path is set.
list_thread_listdir(i) ==
    /\ Listing(i).pc = "listdir"
    /\ \E raises \in BOOLEAN :
         /\ current_remote_path' =
                RememberedPath(current_remote_path, Listing(i).remote_path, ~raises)
         /\ listings' = [listings EXCEPT ![i].pc = IF raises THEN "except" ELSE "report",
                                         ![i].listed = ~raises]
    /\ UNCHANGED <<connectionVars, besidePaths>>

\* Lines 138-146: the status callback and on_complete(True, items, None); an
\* exception of either lands in the except clause of the same try.
list_thread_report(i) ==
    /\ Listing(i).pc = "report"
    /\ \E raised \in MayRaise :
         /\ Faulted(raised)
         /\ listings' = [listings EXCEPT
                           ![i].pc = IF raised THEN "except" ELSE "done",
                           ![i].cb = IF raised THEN @ ELSE Append(@, <<TRUE, NoMessage>>)]
    /\ UNCHANGED <<current_remote_path, wiring, besidePaths>>

\* Lines 148-155: the status callback and on_complete(False, [], error_msg).
list_thread_except(i) ==
    /\ Listing(i).pc = "except"
    /\ \E raised \in MayRaise :
         /\ Faulted(raised)
         /\ listings' = [listings EXCEPT
                           ![i].pc = IF raised THEN "dead" ELSE "done",
                           ![i].cb = IF raised THEN @ ELSE Append(@, <<FALSE, ListingError>>)]
    /\ UNCHANGED <<current_remote_path, wiring, besidePaths>>

InitPaths ==
    /\ ConnectedSession
    /\ closes = 0
    /\ NoCommand
    /\ NoPermissions
    /\ NoListing
    /\ NoDownload
    /\ NoFileOp
    /\ NoStream
    /\ NoPoller
    /\ NoListings

\* The listings of the file explorer and the refresh listings of the file
\* operations, all through list_directory, beside a connection that drops.
NextPaths ==
    \/ \E path \in ListedPaths \cup {NoPath} : list_directory(path)
    \/ \E i \in Threads : list_thread_get(i)
    \/ \E i \in Threads : list_thread_listdir(i)
    \/ \E i \in Threads : list_thread_report(i)
    \/ \E i \in Threads : list_thread_except(i)
    \/ connection_drops

PathSpec == InitPaths /\ [][NextPaths]_vars

\* ------------------------------------------------------------ properties
\* Results a disconnect() call hands to its completion callback without a worker.
Rejected == <<FALSE, DisconnectInProgress>>
NothingToDo == <<TRUE, NotConnected>>

\* Call d ran disconnect_thread_worker to its end.
TornDown(d) ==
    disc[d].pc = "done" /\ disc[d].cb # <<Rejected>> /\ disc[d].cb # <<NothingToDo>>

\* No connect_thread, caller of disconnect() or disconnect worker is under way.
Settled ==
    /\ worker.pc = "idle"
    /\ \A i \in Attempts : conn[i].pc \in {"idle", "nocreds", "done", "dead"}
    /\ \A d \in AllDiscCalls : disc[d].pc \in {"idle", "done"}

\* Settled, and every reader loop and every transfer worker has ended: nothing
\* happens any more unless the user interface makes another call.
Quiescent ==
    /\ Settled
    /\ \A i \in Attempts : reader[i] \in {"idle", "done", "dead"}
    /\ \A k \in OpIds : ops[k].pc \in {"idle", "done", "dead"}

\* The completion results a step adds to a sequence of them.
Added(before, after) == {after[n] : n \in (Len(before) + 1)..Len(after)}

\* C1: every disconnect() call that was given a completion callback and has
\* finished has invoked that callback exactly once, whichever path it took.
C1_CallbackExactlyOnce ==
    \A d \in DiscCalls : disc[d].pc = "done" => Len(disc[d].cb) = 1

\* C2: every disconnect() call whose worker has run to its end has emitted the
\* connection-state event (False, host, user), internal errors included.
C2_StateEventEmitted ==
    \A d \in DiscCalls : TornDown(d) => disc[d].ev

\* C3: a disconnect() call made while the lock of an earlier call is held ends
\* at once with (False, "Disconnect operation already in progress."): it is not
\* left pending, it touches no handle and no session field, and the worker of
\* the earlier call and the records of all other calls are as they were.
C3_SecondCallRejected ==
    [][\A d \in DiscCalls :
          (disc[d].pc = "idle" /\ disc'[d].pc # "idle" /\ disconnect_lock)
          => /\ disc'[d].pc = "done"
             /\ disc'[d].cb = <<Rejected>>
             /\ ~disc'[d].ev
             /\ worker' = worker
             /\ disconnect_lock'
             /\ UNCHANGED <<session, handles>>
             /\ \A e \in AllDiscCalls : e # d => disc'[e] = disc[e]]_vars

\* A call was rejected while the worker of another call was at its teardown.
C3_Witness ==
    \E d \in DiscCalls :
        /\ disc[d].cb = <<Rejected>>
        /\ worker.pc \in {"shell", "shell_close", "sftp", "sftp_close", "client",
                          "client_close", "notify"}
        /\ worker.call \in DiscCalls \ {d}

\* C4: a disconnect() call that finds the session not connected reports
\* (True, "Not connected or already disconnected.") and ends; no worker is
\* started, no handle and no session field changes, the lock it took is free
\* again; every such call does the same.
C4_AlreadyDisconnected ==
    [][\A d \in DiscCalls :
          /\ (disc[d].pc = "idle" /\ disc'[d].pc = "chk")
             => (worker' = worker /\ UNCHANGED <<session, handles>>)
          /\ (disc[d].pc = "chk" /\ disc'[d].pc # "chk" /\ ~connected)
             => /\ disc'[d].pc = "done"
                /\ disc'[d].cb = <<NothingToDo>>
                /\ worker.pc = "idle" /\ worker' = worker
                /\ ~disconnect_lock'
                /\ UNCHANGED <<session, handles>>]_vars

\* Two calls in a row answered a session that had ended on its own.
C4_Witness ==
    /\ \A d \in DiscCalls : disc[d].pc = "done" /\ disc[d].cb = <<NothingToDo>>
    /\ \E i \in Attempts : reader[i] = "done"

C6_HandlesOnlyWhileConnected ==
    Settled => ((shell # Null \/ sftp # Null) => connected)

\* C7: once the session has left the connected state and every thread has run
\* to its end, the shell and SFTP handles have been released.
C7_HandlesReleased ==
    (Quiescent /\ ~connected) => (shell = Null /\ sftp = Null)

C9_FailureMeansDisconnected ==
    [][\A i \in Attempts :
          (\E r \in Added(conn[i].cb, conn'[i].cb) : ~r[1])
          => (~connected /\ reader'[i] = "idle" /\ monitor'[i] = "idle")]_vars

\* C10, for the transfer operations: a worker that has ended has invoked the
\* completion callback of its operation.
C10_OperationCompletes ==
    \A k \in OpIds : ops[k].pc \in {"done", "dead"} => ops[k].cb # <<>>

\* C11: no connect() call and no transfer operation has invoked its
\* completion callback more than once.
C11_CallbackAtMostOnce ==
    /\ \A i \in Attempts : Len(conn[i].cb) <= 1
    /\ \A k \in OpIds : Len(ops[k].cb) <= 1

\* C12: get_sftp_client() never raises to its caller: every call has returned
\* a channel or None.
C12_GetChannelNeverRaises ==
    \A k \in OpIds : ops[k].got # "raised"

\* C13: a get_sftp_client() call whose open_sftp() fails with a text that says
\* the connection is gone leaves the connected flag False; with any other
\* text it leaves the flag as it was.
C13_ConnectionGoneFlipsFlag ==
    [][\A k \in OpIds :
          (ops[k].err = "none" /\ ops'[k].err # "none")
          => IF ConnectionGone(ops'[k].err) THEN ~connected'
             ELSE connected' = connected]_vars

\* C14: after close_sftp() has returned the cached SFTP handle is None.
C14_CloseChannelClears ==
    [][closes' # closes => sftp' = Null]_vars

\* C15: a send_command("kill-process:<pid>") on a connected session that
\* returns True has sent the shell "kill <pid>", not the text of the command,
\* and leaves no entry of that pid in the known-process table.
C15_KillRemovesProcess ==
    [][(Len(commands') > Len(commands) /\ connected /\ shell # Null)
       => LET call == commands'[Len(commands')]
          IN  (IsKillCommand(call.command) /\ Len(call.command) = 2 /\ call.returned)
              => /\ shell_sent' = Append(shell_sent, KillText(Strip(call.command[2])))
                 /\ \A n \in 1..Len(known_processes') :
                       known_processes'[n][2] # Strip(call.command[2])]_vars

\* Bit b of m is set.
BitSet(m, b) == (m \div (2 ^ b)) % 2 = 1

\* C17: the string _format_permissions returns has 10 characters: 'd' for a
\* directory, 'l' for a symlink, '-' otherwise, then for the owner, the group
\* and the others the letters r, w, x where the bit is set and '-' where it
\* is not.
C17_PermissionString ==
    perm_str # <<>>
    => /\ Len(perm_str) = 10
       /\ perm_str[1] = (IF S_ISDIR(mode) THEN "d" ELSE IF S_ISLNK(mode) THEN "l" ELSE "-")
       /\ \A p \in 2..10 :
             perm_str[p] = IF BitSet(mode, 10 - p)
                           THEN <<"r", "w", "x">>[((p - 2) % 3) + 1] ELSE "-"

\* The string of a symlink with mode rwxr-x--x.
C17_Witness ==
    /\ S_ISLNK(mode)
    /\ perm_str = <<"l", "r", "w", "x", "r", "-", "x", "-", "-", "x">>

\* C16: in the items of a successful listing a ".." entry, if there is one,
\* is the first; every directory other than ".." comes before every entry
\* that is not a directory; and within the directories and within the other
\* entries the names, compared without regard to case, never decrease.
C16_ListingOrder ==
    list_result = "ok"
    => /\ \A n \in 1..Len(items) : items[n].name = DotDot => n = 1
       /\ \A m, n \in 1..Len(items) :
             (m < n /\ items[m].name # DotDot /\ items[n].name # DotDot)
             => /\ ~(items[m].type # "directory" /\ items[n].type = "directory")
                /\ ((items[m].type = "directory") = (items[n].type = "directory"))
                   => TextLessEq(Lower(items[m].name), Lower(items[n].name))

\* A listing of "/www" with "..", then the directories "a" and "B", then "_".
C16_Witness ==
    /\ list_result = "ok"
    /\ Len(items) = 4
    /\ items[1].name = DotDot /\ items[1].is_parent
    /\ items[2].name = <<97>> /\ items[2].type = "directory"
    /\ items[3].name = <<66>> /\ items[3].type = "directory"
    /\ items[4].name = <<95>> /\ items[4].type = "link"

\* The download ran to line 284: the first result handed to on_complete is
\* the one computed from the counters.
NormalCompletion ==
    download.cb # <<>> /\ download.cb[1][4] \in {NoMessage, SomeFailed}

\* The files of the batch that have been processed and never transferred.
AlwaysFailed ==
    {n \in 1..Len(download.tally) : n < download.i /\ download.tally[n].downloaded = 0}

\* C18: a file of a download batch whose transfer fails on every attempt is
\* attempted exactly 3 times and counted exactly once as failed; the step
\* that counts it goes on to the next file, or to the final status after the
\* last one, and hands nothing to the completion callback.
C18_ThreeAttemptsThenFailed ==
    /\ [](\A n \in AlwaysFailed :
            download.tally[n].attempts = 3 /\ download.tally[n].failed = 1)
    /\ [][\A n \in 1..Len(download.tally) :
            (Len(download'.tally) = Len(download.tally)
             /\ download'.tally[n].failed > download.tally[n].failed)
            => /\ download'.failed_files = download.failed_files + 1
               /\ download'.i = n + 1
               /\ download'.pc = (IF n < Len(download.files) THEN "file" ELSE "finish")
               /\ download'.cb = download.cb]_vars

\* The first of two files failed three times and the second was downloaded.
C18_Witness ==
    /\ Len(download.files) = 2
    /\ download.i = 3
    /\ download.tally[1] = [attempts |-> 3, downloaded |-> 0, failed |-> 1]
    /\ download.tally[2].downloaded = 1
    /\ download.cb = << <<FALSE, 1, 1, SomeFailed>> >>

\* C19: when download_thread reaches its completion callback on the normal
\* path, every enumerated file has been attempted and counted exactly once,
\* as downloaded or as failed; the counts reported are those counts, their
\* sum is the number of enumerated files, and the success flag is true
\* exactly when the failed count is 0.
C19_CountsAddUp ==
    NormalCompletion
    => LET result == download.cb[1]
           files == 1..Len(download.files)
       IN  /\ \A n \in files :
                /\ download.tally[n].attempts >= 1
                /\ download.tally[n].downloaded + download.tally[n].failed = 1
           /\ result[2] = Cardinality({n \in files : download.tally[n].downloaded = 1})
           /\ result[3] = Cardinality({n \in files : download.tally[n].failed = 1})
           /\ result[2] + result[3] = Len(download.files)
           /\ result[1] = (result[3] = 0)

\* Three files enumerated, two downloaded and one failed.
C19_Witness ==
    /\ NormalCompletion
    /\ Len(download.files) = 3
    /\ download.cb[1] = <<FALSE, 2, 1, SomeFailed>>

\* Every remote file beneath the items chosen.
RemoteFilesBeneath(chosen) ==
    LET found == CountItems(chosen, [files |-> <<>>, dirs |-> <<>>], {})
    IN  {found.files[n] : n \in 1..Len(found.files)}

\* C20: a download that reports success with no failed file has put every
\* remote file beneath every selected item on the local disk.
C20_SuccessMeansAllLocal ==
    (NormalCompletion /\ download.cb[1][1] /\ download.cb[1][3] = 0)
    => RemoteFilesBeneath(selection) \subseteq local.files

\* C21: in an upload without overwrite a local file whose name exists in the
\* remote directory is skipped: no put is issued for it, the remote file
\* system is unchanged and the file is counted as skipped; with overwrite a
\* file counted as uploaded has replaced the remote content by its own.
C21_ExistingFileSkipped ==
    [][(job.pc = "body" /\ job.op = "upload" /\ Len(job'.tally) > Len(job.tally))
       => LET local_file == job.args.local_files[job.i]
              target_path == Join(<<"a">>, local_file.name)
              outcome == job'.tally[Len(job'.tally)]
          IN  /\ (Exists(remote, target_path) /\ ~job.args.overwrite)
                 => /\ outcome = "skipped"
                    /\ job'.skipped_files = job.skipped_files + 1
                    /\ requests' = requests
                    /\ remote' = remote
              /\ (job.args.overwrite /\ outcome = "uploaded")
                 => remote'[target_path] = RegularFile(local_file.content)]_vars

\* C22: when the delete of a directory has reported success, neither the
\* directory nor anything that was beneath it exists on the remote.
C22_DeletedMeansGone ==
    (job.op = "delete" /\ job.cb # <<>> /\ job.cb[1] = <<TRUE, NoMessage>>
     /\ job.args.type = "directory")
    => \A p \in {job.args.path} \cup Beneath(job.args.path) : ~Exists(remote, p)

\* The delete of /a/x, which held a file and a directory with a file, has
\* reported success after the two removes and the two rmdirs.
C22_Witness ==
    /\ job.op = "delete"
    /\ job.args = [path |-> <<"a", "x">>, type |-> "directory"]
    /\ job.cb = << <<TRUE, NoMessage>> >>
    /\ {requests[n] : n \in 1..Len(requests)} =
         { [op |-> "remove", path |-> <<"a", "x", "f">>],
           [op |-> "remove", path |-> <<"a", "x", "s", "g">>],
           [op |-> "rmdir", path |-> <<"a", "x", "s">>],
           [op |-> "rmdir", path |-> <<"a", "x">>] }
    /\ \A p \in Beneath(<<"a">>) \ {<<"a", "y">>} : ~Exists(remote, p)

\* C23: create_directory on a path that exists on the remote completes with
\* (False, "... already exists") and issues no mkdir.
C23_ExistingDirectoryNotCreated ==
    [][(job.pc = "body" /\ job.op = "create" /\ job'.pc # "body"
        /\ Exists(remote, Join(job.args.remote_parent_dir, job.args.new_dir_name)))
       => /\ job'.cb = << <<FALSE, AlreadyExists>> >>
          /\ requests' = requests]_vars

\* C24: rename_item to a name that exists in the directory of the item
\* completes with a failure and issues no rename; the remote file system is
\* left as it was.
C24_ExistingTargetNotRenamed ==
    [][(job.pc = "body" /\ job.op = "rename" /\ job'.pc # "body"
        /\ Exists(remote, Join(Dirname(job.args.item.path), job.args.new_name)))
       => /\ job'.cb # <<>>
          /\ \A n \in 1..Len(job'.cb) : ~job'.cb[n][1]
          /\ requests' = requests
          /\ remote' = remote]_vars

\* C25: at most one transport is open at any time, and an open transport is
\* the one SSHClient.client refers to.
C25_SingleTransport ==
    /\ Cardinality({c \in Attempts : transport[c] = "open"}) <= 1
    /\ \A c \in Attempts : transport[c] = "open" => client = c

\* C26: whatever the chunks in which a stream of well-formed text arrived,
\* the lines handed to _process_output_line are the newline-terminated lines
\* of the text received so far, in order, and the buffer holds what follows
\* the last newline.
C26_LinesWhateverTheChunks ==
    LET text == Decode(stream.received)
        whole == SplitLines(text, [lines |-> <<>>, rest |-> <<>>])
    IN  (stream.pc = "loop" /\ \A n \in 1..Len(text) : text[n] # Utf8.replacement)
        => /\ stream.lines = whole.lines
           /\ stream.buffer = whole.rest

\* C27: a reader loop whose pass raised an unexpected error while the session
\* was connected (a shell read that raises is such an error) has called
\* disconnect() and ended, and once every thread has run to its end the
\* session is disconnected with its shell, SFTP and transport handles closed
\* and released.
C27_ReadErrorTearsDown ==
    \A i \in Attempts :
        (Quiescent /\ (reader[i] = "dead" \/ disc[ReaderCall(i)].pc # "idle"))
        => /\ reader[i] = "done"
           /\ disc[ReaderCall(i)].pc = "done"
           /\ ~connected
           /\ shell = Null /\ sftp = Null /\ client = Null
           /\ \A s \in Attempts : shellState[s].on = i => ShellClosed(s)
           /\ \A f \in OpIds : sftpState[f].on = i => sftpState[f].st = "closed"
           /\ transport[i] = "closed"

\* C28: once the remote end has closed the shell channel of the session, the
\* reader loop of that shell has ended without an error of its own and no
\* callback has raised, and every thread has run to its end, the connected
\* flag is false.
C28_RemoteCloseDisconnects ==
    (Quiescent /\ faults = 0 /\ shell # Null /\ ShellClosed(shell)
     /\ reader[shell] = "done" /\ disc[ReaderCall(shell)].pc = "idle")
    => ~connected

\* C29: the stats poller ends only when the session is no longer connected
\* or its shell is gone or closed.
C29_PollerRunsWhileConnected ==
    [][(poller.pc # "done" /\ poller'.pc = "done") => ~(connected /\ ShellUsable)]_vars

\* C30 as the spec states it: no diagnostic command is sent while the
\* connected flag is false.
C30_NoCommandAfterDisconnect ==
    [][(poller' # poller /\ Len(shell_sent') > Len(shell_sent)) => connected]_vars

\* C30: once the connected flag is false the poller sends at most one more
\* diagnostic command (the one whose test had passed before), starts no
\* further sleep of its waiting loop, and from its tests goes on only to the
\* while condition or to its end.
C30_AtMostOneLateCommand ==
    /\ [](poller.late <= 1)
    /\ [][(~connected /\ poller' # poller)
          => \/ poller.pc \in {"ready", "send"}
                /\ poller'.pc \in {"send", "check", "wait", "done"}
             \/ poller.pc \in {"check", "wait", "while"}
                /\ poller'.pc \in {"while", "done"}
                /\ poller'.slept = poller.slept]_vars

\* The poller has ended after one command sent after the flag was cleared.
C30_Witness ==
    /\ poller.pc = "done"
    /\ poller.late = 1
    /\ ~connected

\* C31: at every step in which disconnect_thread_worker or close_sftp closes
\* a shell, an SFTP channel or a transport, the field of SSHClient that
\* referred to it is null, or refers to another handle, before the step.
C31_NulledBeforeClosed ==
    [][/\ \A s \in Attempts :
            (worker.pc = "shell_close" /\ worker.cur = s
             /\ ~ShellClosed(s) /\ shellState'[s].st = "closed")
            => shell # s
       /\ \A f \in OpIds :
            ((worker.pc = "sftp_close" \/ closes' # closes)
             /\ sftpState[f].st # "closed" /\ sftpState'[f].st = "closed")
            => sftp # f
       /\ \A c \in Attempts :
            (worker.pc = "client_close" /\ transport[c] # "closed"
             /\ transport'[c] = "closed")
            => client # c]_vars

C36_LastRequestedWins ==
    (/\ faults = 0
     /\ listings # <<>>
     /\ \A i \in Threads : Listing(i).pc = "done"
     /\ \E i \in Threads : Listing(i).listed)
    => LET last == CHOOSE i \in Threads :
                     /\ Listing(i).listed
                     /\ \A j \in Threads : Listing(j).listed => j <= i
       IN  current_remote_path = Listing(last).remote_path

\* The order in which list_directory shows the entries of a directory:
\* directories first, then files (in the tree of RemoteChildren each group of
\* a directory has one entry, so the order by name inside a group is moot).
IsDirEntry(entry) == entry.is_dir
IsFileEntry(entry) == ~entry.is_dir
ListingOrder(entries) == SelectSeq(entries, IsDirEntry) \o SelectSeq(entries, IsFileEntry)

\* The files beneath the chosen items, depth-first in listing order.
RECURSIVE ExpandDir(_, _), ExpandEntries(_, _), ExpandItems(_, _)
ExpandDir(dir, unlistable) ==
    IF dir \in unlistable THEN <<>>
    ELSE ExpandEntries(ListingOrder(RemoteChildren(dir)), unlistable)
ExpandEntries(entries, unlistable) ==
    IF entries = <<>> THEN <<>>
    ELSE (IF Head(entries).is_dir THEN ExpandDir(Head(entries).path, unlistable)
          ELSE <<Head(entries).path>>)
         \o ExpandEntries(Tail(entries), unlistable)
ExpandItems(chosen, unlistable) ==
    IF chosen = <<>> THEN <<>>
    ELSE (IF Head(chosen).is_parent THEN <<>>
          ELSE IF Head(chosen).type = "directory"
          THEN ExpandDir(Head(chosen).name, unlistable)
          ELSE <<Head(chosen).name>>)
         \o ExpandItems(Tail(chosen), unlistable)

\* The files of a download are tried one after the other in the order of
\* files_to_download: a file is tried only when every file before it is over.
OneAtATime ==
    \A n \in 1..Len(download.tally) :
        download.tally[n].attempts > 0 => n <= download.i

\* C33: within one download_files call the files are transferred one at a
\* time in the order enumerated, and that order is the depth-first expansion
\* of the chosen items in listing order (directories first, then files).
C33_EnumerationOrder ==
    download.pc \in {"mkdirs", "file", "attempt", "finish"}
    => /\ OneAtATime
       /\ download.files = ExpandItems(selection, obstacles.unlistable)

\* The put requests issued so far.
IsPut(request) == request.op = "put"
Puts == Len(SelectSeq(requests, IsPut))

\* The upload reached line 359: every file has been gone through.
UploadRanThrough ==
    \/ job.pc = "finish"
    \/ job.pc \in {"done", "dead"} /\ Len(job.tally) = Len(job.args.local_files)

\* C34: an upload issues at most one put for each local file it has gone
\* through, each put is counted once as uploaded or as failed, and when the
\* loop has ended uploaded + skipped + failed is the number of local files.
C34_OnePutPerFile ==
    job.op = "upload"
    => /\ Puts <= job.i - 1
       /\ Puts = job.uploaded_files + job.failed_files
       /\ UploadRanThrough
          => job.uploaded_files + job.skipped_files + job.failed_files
             = Len(job.args.local_files)

\* An upload of two files has reported its counters: the put of one file
\* failed and was not repeated, the other file was uploaded.
C34_Witness ==
    /\ job.op = "upload"
    /\ job.pc = "done"
    /\ job.tally = <<"failed", "uploaded">>
    /\ job.cb = << <<FALSE, 1, 1, UploadSomeFailed>> >>
    /\ Puts = 2

\* The requests a step has added.
NewRequests == {requests'[n] : n \in (Len(requests) + 1)..Len(requests')}

RunningReaders == {i \in Attempts : reader[i] = "loop"}
RunningPollers == {i \in Attempts : monitor[i] = "loop"}

\* C37: at most one _read_output loop and at most one _monitor_system loop
\* are running, and a running loop was started by the connection whose shell
\* SSHClient.shell refers to.
C37_OneLoopPerConnection ==
    faults = 0
    => /\ Cardinality(RunningReaders) <= 1
       /\ Cardinality(RunningPollers) <= 1
       /\ \A i \in RunningReaders \cup RunningPollers : shell \in {Null, i}

\* The disconnect() calls whose worker has run to its end.
WorkersRun == {d \in AllDiscCalls : disc[d].pc = "done" /\ disc[d].ev}

\* C38: when a connect has succeeded while the worker of a disconnect was
\* running, and that worker (the only one to have run) and every connect
\* have ended, the session still has its handles: SSHClient.shell and
\* SSHClient.client are not null and the transport of the client is open.
C38_ConnectSurvivesWorker ==
    \A i \in Attempts :
        (/\ faults = 0
         /\ conn[i].pc = "done"
         /\ conn[i].during # Null
         /\ WorkersRun = {conn[i].during}
         /\ worker.pc = "idle"
         /\ \A d \in AllDiscCalls : disc[d].pc \in {"idle", "done"}
         /\ \A j \in Attempts : conn[j].pc \in {"idle", "done"})
        => /\ shell # Null
           /\ client # Null
           /\ transport[client] = "open"

\* The disconnect() calls that hold disconnect_lock: between the acquire of
\* line 148 and the release of line 155 or of line 219.
HoldingCalls == {d \in AllDiscCalls : disc[d].pc \in {"chk", "wait"}}

\* A step in which call d is made and rejected.
RejectedNow(d) == disc[d].pc = "idle" /\ disc'[d].pc = "done" /\ disc'[d].cb = <<Rejected>>

\* C39 as the spec states it: the lock is held only while a call is between
\* its acquire and its release, a call is rejected only while a disconnect
\* worker is running, and a call made when every earlier call has ended is not
\* rejected.
C39_GuardReleased ==
    [][/\ disconnect_lock' => HoldingCalls' # {}
       /\ \A d \in DiscCalls : RejectedNow(d) => worker.pc # "idle"
       /\ \A d \in DiscCalls :
            (disc[d].pc = "idle" /\ disc'[d].pc # "idle" /\ HoldingCalls = {})
            => disc'[d].pc = "chk"]_vars

\* C39 as the code has it: the lock is held only while a call is between its
\* acquire and its release, a call is rejected only while another call holds
\* the lock (its worker running, or the call still before the test of line
\* 153), and a call made when every earlier call has ended is not rejected.
C39_GuardReleasedByHolder ==
    [][/\ disconnect_lock' => HoldingCalls' # {}
       /\ \A d \in DiscCalls : RejectedNow(d) => HoldingCalls \ {d} # {}
       /\ \A d \in DiscCalls :
            (disc[d].pc = "idle" /\ disc'[d].pc # "idle" /\ HoldingCalls = {})
            => disc'[d].pc = "chk"]_vars

\* One call was rejected, a later one was made after the lock had been
\* released and was answered on its merits, and the lock is free again.
C39_Witness ==
    /\ disc[1].cb = <<Rejected>>
    /\ disc[2].pc = "done"
    /\ disc[2].cb = <<NothingToDo>>
    /\ \E d \in AllDiscCalls : disc[d].pc = "done" /\ disc[d].ev
    /\ worker.pc = "idle"
    /\ ~disconnect_lock

\* C40: in a session with a single connect, once the completion callback of a
\* disconnect() has been given (True, None), SSHClient.sftp is null and no
\* SFTP channel is open, whatever get_sftp_client() calls ran beside it.
C40_NoChannelAfterDisconnect ==
    (/\ faults = 0
     /\ \A i \in Attempts \ {1} : conn[i].pc = "idle"
     /\ \E d \in DiscCalls : disc[d].pc = "done" /\ disc[d].cb = << <<TRUE, NoMessage>> >>)
    => /\ sftp = Null
       /\ \A f \in OpIds : sftpState[f].st # "open"

====
